---------------------------- MODULE Spec2Model ----------------------------
(***************************************************************************)
(* rootwork: the unit directory (fuzzy filter, group tree, selection,      *)
(* confirm -> pending -> execute action workflow), the journal log panel   *)
(* and the application shell that dispatches keys and ticks to them.       *)
(*                                                                         *)
(* Strings the code inspects character by character (unit names,           *)
(* descriptions, the filter) are sequences of one-character strings;       *)
(* strings the code only builds or compares whole are TLA+ strings.        *)
(* Option<T> is a sequence of length at most one: None is << >>,           *)
(* Some(v) is <<v>>.                                                       *)
(***************************************************************************)
EXTENDS Integers, Sequences, FiniteSets, TLC

(***************************************************************************)
(* Bounds of the model.                                                    *)
(***************************************************************************)
\* longest filter the user types
MaxFilterLen == 2
\* records the journal can hold before the environment stops appending
MaxJournal == 3
\* how far from 0 or from usize::MAX the detail log scroll is followed
MaxScroll == 2
\* Scaled-down stand-ins for sizes the code fixes: the capacity of the log
\* panel (1000), the records of a recent read (100 for the panel, 120 for a
\* unit), the cap of a since read (500) and the page step (10).
max_entries == 2
RecentLimit == 2
DetailLogLimit == 2
SinceCap == 2
PageSize == 2
\* the "approximate visible lines" (10) tick clamps the detail scroll with
TickVisible == 1

\* Program constants.
MicrosPerSec == 1000000
DefaultPriority == 6
DescPenalty == 200
SubseqPenalty == 100
\* usize::MAX, as the largest integer of the model
USIZE_MAX == 2147483647

None == << >>
Some(v) == <<v>>
IsSome(o) == o # << >>
Unwrap(o) == o[1]
\* Option::or
OrElse(o, other) == IF IsSome(o) THEN o ELSE other
\* Option::unwrap_or
UnwrapOr(o, default) == IF IsSome(o) THEN o[1] ELSE default

Min(a, b) == IF a <= b THEN a ELSE b
Max(a, b) == IF a >= b THEN a ELSE b
\* usize::saturating_sub, usize::saturating_add
SatSub(a, b) == IF a >= b THEN a - b ELSE 0
SatAdd(a, b) == IF a > USIZE_MAX - b THEN USIZE_MAX ELSE a + b

\* the least and the greatest element of a non-empty set of integers
Least(S) == CHOOSE i \in S : \A j \in S : i <= j
Greatest(S) == CHOOSE i \in S : \A j \in S : j <= i
\* the least element as an Option
FirstOf(S) == IF S = {} THEN None ELSE Some(Least(S))

\* Ordering: -1 Less, 0 Equal, 1 Greater
CmpInt(x, y) == IF x < y THEN -1 ELSE IF x > y THEN 1 ELSE 0
\* Ordering::then_with
ThenWith(first, second) == IF first # 0 THEN first ELSE second
\* Ordering::reverse
ReverseOrdering(c) == 0 - c

(***************************************************************************)
(* Characters.  AsciiOrder lists the characters of the model in ASCII      *)
(* order, so that the position of a character orders it as its byte does.  *)
(***************************************************************************)
AsciiOrder == <<" ", ".", "S", "a", "b", "c", "e", "h", "i", "k", "m", "n",
                "o", "r", "s", "t", "v">>
CharCode(c) == CHOOSE i \in 1..Len(AsciiOrder) : AsciiOrder[i] = c

\* char::to_lowercase, on the characters of the model
LowerChar(c) == IF c = "S" THEN "s" ELSE c
\* str::to_lowercase
ToLowercase(s) == [i \in 1..Len(s) |-> LowerChar(s[i])]

\* str::trim: leading and trailing white space removed
RECURSIVE TrimStart(_)
TrimStart(s) == IF s # << >> /\ Head(s) = " " THEN TrimStart(Tail(s)) ELSE s
RECURSIVE TrimEnd(_)
TrimEnd(s) ==
    IF s # << >> /\ s[Len(s)] = " " THEN TrimEnd(SubSeq(s, 1, Len(s) - 1)) ELSE s
Trim(s) == TrimEnd(TrimStart(s))

\* The String a character sequence stands for (used where the code formats).
RECURSIVE StrOf(_)
StrOf(s) == IF s = << >> THEN "" ELSE Head(s) \o StrOf(Tail(s))

\* <str as Ord>::cmp: lexicographic by byte
RECURSIVE StrCmp(_, _)
StrCmp(a, b) ==
    IF a = << >> \/ b = << >> THEN CmpInt(Len(a), Len(b))
    ELSE ThenWith(CmpInt(CharCode(Head(a)), CharCode(Head(b))),
                  StrCmp(Tail(a), Tail(b)))

\* str::find(&str): 0-based index of the first occurrence, as an Option
FindStr(hay, needle) ==
    FirstOf({i \in 0..(Len(hay) - Len(needle)) :
                SubSeq(hay, i + 1, i + Len(needle)) = needle})

\* str::find(char) on hay[from..]: index relative to from, as an Option
FindChar(hay, from, c) ==
    FirstOf({i \in 0..(Len(hay) - from - 1) : hay[from + i + 1] = c})

(***************************************************************************)
(* RankFilter: fuzzy_match_score and the filter + sort of                  *)
(* apply_filter_and_sort.                                                  *)
(***************************************************************************)
\* the subsequence walk of fuzzy_match_score, needle[i..] against
\* haystack[last_idx..]; FuzzyStep is one turn of its loop, with the answer
\* of haystack[last_idx..].find(n)
RECURSIVE FuzzyWalk(_, _, _, _, _, _)
RECURSIVE FuzzyStep(_, _, _, _, _, _, _)
\* one turn of the loop that adds no gap to gap_penalty
FuzzyStepAddsNoGap(haystack, needle, i, last_idx, first_match, gap_penalty, found) ==
    IF found = None THEN None
    ELSE FuzzyWalk(haystack, needle, i + 1, last_idx + Unwrap(found) + 1,
                   OrElse(first_match, Some(last_idx + Unwrap(found))),
                   gap_penalty)
FuzzyStep(haystack, needle, i, last_idx, first_match, gap_penalty, found) ==
    IF found = None THEN None
    ELSE FuzzyWalk(haystack, needle, i + 1, last_idx + Unwrap(found) + 1,
                   OrElse(first_match, Some(last_idx + Unwrap(found))),
                   gap_penalty + Unwrap(found))
FuzzyWalk(haystack, needle, i, last_idx, first_match, gap_penalty) ==
    IF i > Len(needle)
    THEN Some(UnwrapOr(first_match, 0) + gap_penalty * 2 + SubseqPenalty)
    ELSE FuzzyStep(haystack, needle, i, last_idx, first_match, gap_penalty,
                   FindChar(haystack, last_idx, needle[i]))

\* the fuzzy match with no subsequence walk: a substring or nothing
fuzzy_match_substring(haystack, needle) ==
    IF needle = << >> THEN Some(0) ELSE FindStr(haystack, needle)

fuzzy_match_score(haystack, needle) ==
    IF needle = << >> THEN Some(0)
    ELSE OrElse(FindStr(haystack, needle),
                FuzzyWalk(haystack, needle, 1, 0, None, 0))

\* the match on (name_score, desc_score): the lower of two scores, the one
\* there is, or None
BetterScore(name_score, desc_score) ==
    IF IsSome(name_score) /\ IsSome(desc_score)
    THEN Some(Min(Unwrap(name_score), Unwrap(desc_score)))
    ELSE OrElse(name_score, desc_score)

\* Option::map(|s| s + 200)
Penalized(score) == IF IsSome(score) THEN Some(Unwrap(score) + DescPenalty) ELSE None

\* the score a unit gets for a needle
BestScore(u, needle) ==
    BetterScore(fuzzy_match_score(ToLowercase(u.name), needle),
                Penalized(fuzzy_match_score(ToLowercase(u.description), needle)))

\* filter_map's result for one unit: kept with its score, or dropped
Ranked(u, best_score) == IF IsSome(best_score) THEN <<<<u, best_score>>>> ELSE << >>

\* ranked_units before the sort: <<unit, score>> pairs
RECURSIVE RankUnits(_, _)
RankUnits(us, flt) ==
    IF us = << >> THEN << >>
    ELSE IF flt = << >>
    THEN <<<<Head(us), None>>>> \o RankUnits(Tail(us), flt)
    ELSE Ranked(Head(us), BestScore(Head(us), ToLowercase(Trim(flt))))
         \o RankUnits(Tail(us), flt)

\* the closure handed to sort_by: fuzzy_cmp, then the sort key, the whole
\* reversed when descending
FuzzyCmp(a_score, b_score) ==
    IF IsSome(a_score) /\ IsSome(b_score)
    THEN CmpInt(Unwrap(a_score), Unwrap(b_score)) ELSE 0
KeyCmp(a, b, by) ==
    IF by = "Name" THEN StrCmp(a.name, b.name)
    ELSE ThenWith(StrCmp(a.active_state, b.active_state), StrCmp(a.name, b.name))
Directed(base_cmp, ascending) ==
    IF ascending THEN base_cmp ELSE ReverseOrdering(base_cmp)
RankCmp(p, q, by, ascending) ==
    Directed(ThenWith(FuzzyCmp(p[2], q[2]), KeyCmp(p[1], q[1], by)), ascending)

\* slice::sort_by is a stable sort: x goes after every element not greater
InsertAt(s, x, pos) == SubSeq(s, 1, pos - 1) \o <<x>> \o SubSeq(s, pos, Len(s))
InsertRanked(sorted, x, by, ascending) ==
    InsertAt(sorted, x,
             UnwrapOr(FirstOf({i \in 1..Len(sorted) :
                                  RankCmp(sorted[i], x, by, ascending) > 0}),
                      Len(sorted) + 1))

\* ranked_units left in the order the filter produced
SortRankedKeepsOrder(ranked, by, ascending) == ranked

RECURSIVE SortRanked(_, _, _)
SortRanked(ranked, by, ascending) ==
    IF ranked = << >> THEN << >>
    ELSE InsertRanked(SortRanked(SubSeq(ranked, 1, Len(ranked) - 1), by, ascending),
                      ranked[Len(ranked)], by, ascending)

\* into_iter().map(|(u, _)| u)
UnitsOf(ranked) == [i \in 1..Len(ranked) |-> ranked[i][1]]

\* filtered_units as apply_filter_and_sort leaves it
FilteredUnits(us, flt, by, ascending) ==
    UnitsOf(SortRanked(RankUnits(us, flt), by, ascending))

(***************************************************************************)
(* GroupTree: rebuild_tree_items.                                          *)
(***************************************************************************)
Service == <<"s", "e", "r", "v", "i", "c", "e">>
Active == <<"a", "c", "t", "i", "v", "e">>

\* what follows position `dot` of a name, the whole name when dot is None
AfterDot(name, dot) ==
    IF dot = None THEN name ELSE SubSeq(name, Unwrap(dot) + 1, Len(name))
\* the position of the last '.' of a name, as an Option
LastDot(S) == IF S = {} THEN None ELSE Some(Greatest(S))
\* unit.name.split('.').last(): what follows the last '.', the whole name
\* when it has none (split always yields one piece, so unwrap_or never acts)
GroupKey(name) == AfterDot(name, LastDot({i \in 1..Len(name) : name[i] = "."}))

\* UnitInfo::is_active
is_active(u) == u.active_state = Active

\* the least name of a non-empty set
LeastName(S) == CHOOSE n \in S : \A m \in S : StrCmp(n, m) <= 0
\* group_names.sort()
RECURSIVE SortNames(_)
RECURSIVE SortFrom(_, _)
SortFrom(S, least) == <<least>> \o SortNames(S \ {least})
SortNames(S) == IF S = {} THEN << >> ELSE SortFrom(S, LeastName(S))

GroupNames(fu) == SortNames({GroupKey(fu[i].name) : i \in 1..Len(fu)})

\* collapsed_groups never seeded
SeedCollapsedNever(names, collapsed) == collapsed

\* collapsed_groups seeded with every group but "service" on every rebuild
SeedCollapsedOnEveryBuild(names, collapsed) ==
    {names[i] : i \in {j \in 1..Len(names) : names[j] # Service}}

\* collapsed_groups after a rebuild over group_names: seeded with every
\* group but "service" on the first load only
SeedCollapsed(names, collapsed) ==
    IF collapsed = {} /\ names # << >>
    THEN {names[i] : i \in {j \in 1..Len(names) : names[j] # Service}}
    ELSE collapsed
CollapsedAfterRebuild(fu, collapsed) == SeedCollapsed(GroupNames(fu), collapsed)

GroupItem(nm, members) ==
    [kind |-> "Group", name |-> nm, count |-> Len(members),
     active |-> Len(SelectSeq(members, is_active)), unit |-> None]
UnitItem(u) ==
    [kind |-> "Unit", name |-> None, count |-> 0, active |-> 0, unit |-> Some(u)]
UnitItems(members) == [i \in 1..Len(members) |-> UnitItem(members[i])]

\* the header of group g and its units, collapsed or not
GroupBlockShowsAll(g, members, collapsed) ==
    <<GroupItem(g, members)>> \o UnitItems(members)

\* the header of group g and, unless it is collapsed, its units
GroupBlock(g, members, collapsed) ==
    <<GroupItem(g, members)>>
    \o (IF g \in collapsed THEN << >> ELSE UnitItems(members))

Members(fu, g) == SelectSeq(fu, LAMBDA u : GroupKey(u.name) = g)

RECURSIVE BuildTree(_, _, _)
BuildTree(names, fu, collapsed) ==
    IF names = << >> THEN << >>
    ELSE GroupBlock(Head(names), Members(fu, Head(names)), collapsed)
         \o BuildTree(Tail(names), fu, collapsed)

\* tree_items built from the collapse set as it was before the seeding
TreeOverUnseeded(names, fu, collapsed) == BuildTree(names, fu, collapsed)

\* tree_items after rebuild_tree_items (which also seeds collapsed_groups)
TreeOver(names, fu, collapsed) == BuildTree(names, fu, SeedCollapsed(names, collapsed))
TreeItems(fu, collapsed) == TreeOver(GroupNames(fu), fu, collapsed)

\* get_total_items
TotalItems(mode, fu, tree) == IF mode = "List" THEN Len(fu) ELSE Len(tree)

\* a selection out of range put on the first row
ClampSelectedToTop(sel, total) == IF sel >= total THEN 0 ELSE sel

\* the "clamp selection" tail of apply_filter_and_sort
ClampSelected(sel, total) ==
    IF total > 0 THEN (IF sel >= total THEN total - 1 ELSE sel) ELSE 0

(***************************************************************************)
(* The external collaborators.                                             *)
(*                                                                         *)
(* The unit manager answers list_units with one of Snapshots or with an    *)
(* error, and a lifecycle call with Ok or an error text.  The journal is a *)
(* sequence of records in the order the journal iterates them.             *)
(***************************************************************************)
Inactive == <<"i", "n", "a", "c", "t", "i", "v", "e">>
SshServiceName == <<"s", "s", "h", ".", "s", "e", "r", "v", "i", "c", "e">>
CronServiceName == <<"c", "r", "o", "n", ".", "s", "e", "r", "v", "i", "c", "e">>
SshSocketName == <<"s", "s", "h", ".", "s", "o", "c", "k", "e", "t">>

UnitInfo(nm, desc, act, sub) ==
    [name |-> nm, description |-> desc, load_state |-> "loaded",
     active_state |-> act, sub_state |-> sub]

SshService == UnitInfo(SshServiceName, <<"S", "s", "h", " ", "s", "e", "r", "v", "e", "r">>,
                       Active, "running")
SshServiceStopped == UnitInfo(SshServiceName,
                              <<"S", "s", "h", " ", "s", "e", "r", "v", "e", "r">>,
                              Inactive, "dead")
CronService == UnitInfo(CronServiceName, <<"t", "a", "s", "k">>, Inactive, "dead")
SshSocket == UnitInfo(SshSocketName, <<"S", "s", "h", " ", "s", "o", "c", "k", "e", "t">>,
                      Active, "listening")

\* what list_units can answer
Snapshots == { <<SshSocket, SshService, CronService>>,
               <<SshServiceStopped, SshSocket>> }
ListErrors == {"Connection refused"}
ListResults == [ok : {TRUE}, units : Snapshots, err : {""}]
               \cup [ok : {FALSE}, units : {<< >>}, err : ListErrors]

\* what start/stop/enable/disable can answer
CallErrors == {"Access denied"}
CallResults == [ok : {TRUE}, err : {""}] \cup [ok : {FALSE}, err : CallErrors]

\* one journal record: its realtime stamp and the fields the readers fetch
JournalRecord(ts, msg, unit, ident, prio) ==
    [realtime |-> ts, MESSAGE |-> msg, SYSTEMD_UNIT |-> unit,
     SYSLOG_IDENTIFIER |-> ident, PRIORITY |-> prio]

(***************************************************************************)
(* State.                                                                  *)
(***************************************************************************)
VARIABLES
    \* run_app / App
    running, current_context, show_help,
    \* UnitsContext
    units, filtered_units, tree_items, selected, scroll_offset, filter,
    filter_backup, show_filter, loading, error, view_mode, sort_by,
    sort_ascending, collapsed_groups, detail_unit, detail_logs,
    confirm_action, pending_action, action_status, detail_log_scroll,
    detail_log_follow,
    \* LogsContext
    entries, paused, follow_mode, logs_selected,
    \* the journal of the host
    journal,
    \* the calls the last step made to the collaborators, in order
    io,
    \* history: the action and unit of the last affirmative key that was
    \* pressed on a confirmation prompt
    affirmed,
    \* history: an affirmative key was pressed on a prompt, and since then
    \* App::tick has not run and the detail view has not closed
    armed,
    \* history: the last step was a run of App::tick
    ticked

shellVars == <<running, current_context, show_help>>
listVars == <<units, filtered_units, tree_items, selected, scroll_offset, filter,
              filter_backup, show_filter, loading, error, view_mode, sort_by,
              sort_ascending, collapsed_groups>>
detailVars == <<detail_unit, detail_logs, confirm_action, pending_action,
                action_status, detail_log_scroll, detail_log_follow>>
unitsVars == <<listVars, detailVars>>
logsVars == <<entries, paused, follow_mode, logs_selected>>
vars == <<shellVars, unitsVars, logsVars, journal, io, affirmed, armed, ticked>>

(***************************************************************************)
(* The journal readers (logs.rs JournalReader, units.rs                    *)
(* read_recent_unit_logs).  open_ok is whether sd_journal_open succeeds.   *)
(***************************************************************************)
Reverse(s) == [i \in 1..Len(s) |-> s[Len(s) + 1 - i]]

\* the records a session iterates once the exact match on the unit is added
MatchingRecords(j, unit) ==
    IF unit = None THEN j ELSE SelectSeq(j, LAMBDA r : r.SYSTEMD_UNIT = unit)

\* PRIORITY parsed as u8
ParsePriority(p) ==
    CASE p = "0" -> Some(0) [] p = "1" -> Some(1) [] p = "2" -> Some(2)
      [] p = "3" -> Some(3) [] p = "4" -> Some(4) [] p = "5" -> Some(5)
      [] p = "6" -> Some(6) [] p = "7" -> Some(7) [] p = "8" -> Some(8)
      [] p = "9" -> Some(9) [] OTHER -> None

\* logs.rs read_current_entry; display_time holds the seconds it renders
read_current_entry(r) ==
    IF r.MESSAGE = None THEN None
    ELSE Some([timestamp_micros |-> r.realtime,
               display_time |-> r.realtime \div MicrosPerSec,
               unit |-> IF IsSome(r.SYSTEMD_UNIT) THEN Unwrap(r.SYSTEMD_UNIT)
                        ELSE IF IsSome(r.SYSLOG_IDENTIFIER)
                             THEN Unwrap(r.SYSLOG_IDENTIFIER)
                        ELSE "system",
               message |-> Unwrap(r.MESSAGE),
               priority |-> IF IsSome(r.PRIORITY)
                            THEN UnwrapOr(ParsePriority(Unwrap(r.PRIORITY)),
                                          DefaultPriority)
                            ELSE DefaultPriority])

\* units.rs read_journal_entry
read_journal_entry(r) ==
    IF r.MESSAGE = None THEN None
    ELSE Some([timestamp_micros |-> r.realtime,
               display_time |-> r.realtime \div MicrosPerSec,
               message |-> Unwrap(r.MESSAGE)])

\* the backward walk of read_recent from the tail: at most `left` steps of
\* sd_journal_previous from position pos, newest first
RECURSIVE WalkBack(_, _, _)
WalkBack(m, pos, left) ==
    IF left = 0 \/ pos < 1 THEN << >>
    ELSE read_current_entry(m[pos]) \o WalkBack(m, pos - 1, left - 1)

\* the walk without out.reverse()
RecentNewestFirst(m, max) == WalkBack(m, Len(m), max)

\* seek_tail, the walk, out.reverse()
RecentOf(m, max) == Reverse(WalkBack(m, Len(m), max))

read_recent(j, unit, max, open_ok) ==
    IF ~open_ok THEN << >> ELSE RecentOf(MatchingRecords(j, unit), max)

\* the same walk in units.rs
RECURSIVE WalkBackUnit(_, _, _)
WalkBackUnit(m, pos, left) ==
    IF left = 0 \/ pos < 1 THEN << >>
    ELSE read_journal_entry(m[pos]) \o WalkBackUnit(m, pos - 1, left - 1)

RecentUnitOf(m, max) == Reverse(WalkBackUnit(m, Len(m), max))

read_recent_unit_logs(j, unit, max, open_ok) ==
    IF ~open_ok THEN << >> ELSE RecentUnitOf(MatchingRecords(j, Some(unit)), max)

\* read_since keeping whatever entry it reads
KeepAny(out, e, since_micros) == IF IsSome(e) THEN Append(out, Unwrap(e)) ELSE out

\* read_since keeps an entry only if it is stamped after the cursor
KeepNewer(out, e, since_micros) ==
    IF IsSome(e) /\ Unwrap(e).timestamp_micros > since_micros
    THEN Append(out, Unwrap(e)) ELSE out

\* the forward walk of read_since from position pos; SinceCapped is the
\* check of the cap that ends a turn of its loop
RECURSIVE WalkSince(_, _, _, _)
RECURSIVE SinceCapped(_, _, _, _)
SinceCapped(m, pos, since_micros, out) ==
    IF Len(out) >= SinceCap THEN out ELSE WalkSince(m, pos + 1, since_micros, out)
WalkSince(m, pos, since_micros, out) ==
    IF pos > Len(m) THEN out
    ELSE SinceCapped(m, pos, since_micros,
                     KeepNewer(out, read_current_entry(m[pos]), since_micros))

\* sd_journal_seek_realtime_usec: the first record stamped at or after usec
SeekRealtime(m, usec) ==
    UnwrapOr(FirstOf({i \in 1..Len(m) : m[i].realtime >= usec}), Len(m) + 1)

\* The seek is to the closest record: the next record read is the one
\* SeekRealtime names or, seek_back = 1, the record before it.
SeekBacks == {0, 1}
SeekLanding(m, usec, seek_back) ==
    IF SeekRealtime(m, usec) - seek_back >= 1
    THEN SeekRealtime(m, usec) - seek_back ELSE SeekRealtime(m, usec)

SinceOf(m, since_micros, seek_back) ==
    WalkSince(m, SeekLanding(m, SatAdd(since_micros, 1), seek_back), since_micros,
              << >>)

\* read_since reading on when the journal could not be opened
read_since_unopened(j, unit, since_micros, open_ok, seek_back) ==
    SinceOf(MatchingRecords(j, unit), since_micros, seek_back)

read_since(j, unit, since_micros, open_ok, seek_back) ==
    IF ~open_ok THEN << >>
    ELSE SinceOf(MatchingRecords(j, unit), since_micros, seek_back)

(***************************************************************************)
(* The calls each reader makes to the journal library, in order.  open_ok  *)
(* is whether sd_journal_open succeeds; iter_ok is how many calls of       *)
(* sd_journal_previous / sd_journal_next answer before one answers with an *)
(* error.                                                                  *)
(***************************************************************************)
SdCall(fn, ok) == [fn |-> fn, ok |-> ok]

\* a session that returns without sd_journal_close
SessionUnclosed(open_ok, body) ==
    IF ~open_ok THEN <<SdCall("sd_journal_open", FALSE)>>
    ELSE <<SdCall("sd_journal_open", TRUE)>> \o body

\* the frame of the three readers: return at once if the open fails, else
\* the body, then sd_journal_close
Session(open_ok, body) ==
    IF ~open_ok THEN <<SdCall("sd_journal_open", FALSE)>>
    ELSE <<SdCall("sd_journal_open", TRUE)>> \o body
         \o <<SdCall("sd_journal_close", TRUE)>>

\* the match on the unit, added only if a unit is given
MatchCalls(unit) ==
    IF unit = None THEN << >> ELSE <<SdCall("sd_journal_add_match", TRUE)>>

\* read_current_entry / read_journal_entry: the stamp, then MESSAGE, and in
\* logs.rs the other fields once MESSAGE is there
EntryCalls(r) ==
    <<SdCall("sd_journal_get_realtime_usec", TRUE),
      SdCall("sd_journal_get_data", r.MESSAGE # None)>>
    \o (IF r.MESSAGE = None THEN << >>
        ELSE <<SdCall("sd_journal_get_data", r.SYSTEMD_UNIT # None)>>
             \o (IF r.SYSTEMD_UNIT # None THEN << >>
                 ELSE <<SdCall("sd_journal_get_data", r.SYSLOG_IDENTIFIER # None)>>)
             \o <<SdCall("sd_journal_get_data", r.PRIORITY # None)>>)
UnitEntryCalls(r) ==
    <<SdCall("sd_journal_get_realtime_usec", TRUE),
      SdCall("sd_journal_get_data", r.MESSAGE # None)>>

\* `for _ in 0..max { if sd_journal_previous(j) <= 0 { break; } ... }`
RECURSIVE WalkBackCalls(_, _, _, _, _)
WalkBackCalls(m, pos, left, iter_ok, in_unit) ==
    IF left = 0 THEN << >>
    ELSE IF pos < 1 \/ iter_ok = 0
    THEN <<SdCall("sd_journal_previous", FALSE)>>
    ELSE <<SdCall("sd_journal_previous", TRUE)>>
         \o (IF in_unit THEN UnitEntryCalls(m[pos]) ELSE EntryCalls(m[pos]))
         \o WalkBackCalls(m, pos - 1, left - 1, iter_ok - 1, in_unit)

read_recent_calls(j, unit, max, open_ok, iter_ok) ==
    Session(open_ok,
            MatchCalls(unit) \o <<SdCall("sd_journal_seek_tail", TRUE)>>
            \o WalkBackCalls(MatchingRecords(j, unit),
                             Len(MatchingRecords(j, unit)), max, iter_ok, FALSE))

read_recent_unit_logs_calls(j, unit, max, open_ok, iter_ok) ==
    Session(open_ok,
            MatchCalls(Some(unit)) \o <<SdCall("sd_journal_seek_tail", TRUE)>>
            \o WalkBackCalls(MatchingRecords(j, Some(unit)),
                             Len(MatchingRecords(j, Some(unit))), max, iter_ok, TRUE))

\* `loop { if sd_journal_next(j) <= 0 { break; } ... if out.len() >= 500
\* { break; } }`, out the entries kept so far
RECURSIVE WalkSinceCalls(_, _, _, _, _)
RECURSIVE SinceCappedCalls(_, _, _, _, _)
SinceCappedCalls(m, pos, since_micros, out, iter_ok) ==
    IF Len(out) >= SinceCap THEN << >>
    ELSE WalkSinceCalls(m, pos + 1, since_micros, out, iter_ok - 1)
WalkSinceCalls(m, pos, since_micros, out, iter_ok) ==
    IF pos > Len(m) \/ iter_ok = 0
    THEN <<SdCall("sd_journal_next", FALSE)>>
    ELSE <<SdCall("sd_journal_next", TRUE)>> \o EntryCalls(m[pos])
         \o SinceCappedCalls(m, pos, since_micros,
                             KeepNewer(out, read_current_entry(m[pos]), since_micros),
                             iter_ok)

read_since_calls(j, unit, since_micros, open_ok, seek_back, iter_ok) ==
    Session(open_ok,
            MatchCalls(unit) \o <<SdCall("sd_journal_seek_realtime_usec", TRUE)>>
            \o WalkSinceCalls(MatchingRecords(j, unit),
                              SeekLanding(MatchingRecords(j, unit),
                                          SatAdd(since_micros, 1), seek_back),
                              since_micros, << >>, iter_ok))

\* a call to a collaborator, as io records it
Call(name, arg, cursor) == [call |-> name, arg |-> arg, cursor |-> cursor]

(***************************************************************************)
(* LogsContext (logs.rs).                                                  *)
(***************************************************************************)
\* filter_unit is None from construction on: nothing assigns it
filter_unit == None

\* the eviction with the selection left where it was
EvictKeepsSelection(pushed, sel) ==
    IF Len(pushed) > max_entries THEN <<Tail(pushed), sel>> ELSE <<pushed, sel>>

\* the eviction of add_entry, once the entry is pushed
Evict(pushed, sel) ==
    IF Len(pushed) > max_entries
    THEN <<Tail(pushed), IF sel > 0 THEN sel - 1 ELSE sel>>
    ELSE <<pushed, sel>>

\* add_entry without the eviction
add_entry_unbounded(es, sel, e) == <<Append(es, e), sel>>

\* add_entry, on the pair <<entries, selected>>
add_entry(es, sel, e) == Evict(Append(es, e), sel)

\* `for e in fresh { self.add_entry(e) }`
RECURSIVE AddAll(_, _, _)
RECURSIVE AddRest(_, _)
AddRest(st, rest) == AddAll(st[1], st[2], rest)
AddAll(es, sel, fresh) ==
    IF fresh = << >> THEN <<es, sel>>
    ELSE AddRest(add_entry(es, sel, Head(fresh)), Tail(fresh))

\* scroll_to_bottom selecting one past the last entry
LogsScrollPastBottom(es, sel) == Len(es)

\* LogsContext::scroll_to_bottom, as the new selected
LogsScrollToBottom(es, sel) == IF es # << >> THEN Len(es) - 1 ELSE sel

\* the end of load_entries, st the buffer and selection the adds left
Loaded(st) ==
    /\ entries' = st[1]
    /\ logs_selected' = IF follow_mode THEN LogsScrollToBottom(st[1], st[2])
                        ELSE st[2]

load_entries(open_ok) ==
    /\ Loaded(AddAll(<< >>, 0, read_recent(journal, filter_unit, RecentLimit, open_ok)))
    /\ UNCHANGED <<paused, follow_mode>>
    /\ io' = <<Call("read_recent", "", 0)>>

\* the cursor taken from the oldest entry held
LastSeenOldest(es) == IF es # << >> THEN es[1].timestamp_micros ELSE 0

\* entries.back().map(|e| e.timestamp_micros).unwrap_or(0)
LastSeen(es) == IF es # << >> THEN es[Len(es)].timestamp_micros ELSE 0

\* the end of refresh without the scroll to the bottom
PolledKeepsSelection(st, old_len) ==
    /\ entries' = st[1]
    /\ logs_selected' = st[2]

\* the end of refresh, st the buffer and selection the adds left
Polled(st, old_len) ==
    /\ entries' = st[1]
    /\ logs_selected' = IF follow_mode /\ ~paused /\ Len(st[1]) > old_len
                        THEN LogsScrollToBottom(st[1], st[2])
                        ELSE st[2]

\* refresh without the check of paused
LogsRefreshIgnoresPause(open_ok) ==
    /\ \E seek_back \in SeekBacks :
          Polled(AddAll(entries, logs_selected,
                        read_since(journal, filter_unit, LastSeen(entries),
                                   open_ok, seek_back)),
                 Len(entries))
    /\ UNCHANGED <<paused, follow_mode>>
    /\ io' = <<Call("read_since", "", LastSeen(entries))>>

\* LogsContext::refresh, the poll
LogsRefresh(open_ok) ==
    IF paused THEN UNCHANGED logsVars /\ io' = << >>
    ELSE /\ \E seek_back \in SeekBacks :
                Polled(AddAll(entries, logs_selected,
                              read_since(journal, filter_unit, LastSeen(entries),
                                         open_ok, seek_back)),
                       Len(entries))
         /\ UNCHANGED <<paused, follow_mode>>
         /\ io' = <<Call("read_since", "", LastSeen(entries))>>

\* LogsContext::handle_key
LogsHandleKey(key, open_ok) ==
    CASE key \in {"j", "Down"} ->
            \* move_down
            /\ IF logs_selected + 1 < Len(entries)
               THEN /\ logs_selected' = logs_selected + 1
                    /\ follow_mode' = IF logs_selected + 1 = Len(entries) - 1
                                      THEN TRUE ELSE follow_mode
               ELSE UNCHANGED <<logs_selected, follow_mode>>
            /\ UNCHANGED <<entries, paused>> /\ io' = << >>
      [] key \in {"k", "Up"} ->
            \* move_up
            /\ IF logs_selected > 0
               THEN logs_selected' = logs_selected - 1 /\ follow_mode' = FALSE
               ELSE UNCHANGED <<logs_selected, follow_mode>>
            /\ UNCHANGED <<entries, paused>> /\ io' = << >>
      [] key \in {" ", "PageDown"} ->
            \* page_down
            /\ logs_selected' = Min(logs_selected + PageSize, SatSub(Len(entries), 1))
            /\ follow_mode' = IF logs_selected' = SatSub(Len(entries), 1)
                              THEN TRUE ELSE follow_mode
            /\ UNCHANGED <<entries, paused>> /\ io' = << >>
      [] key \in {"b", "PageUp"} ->
            \* page_up
            /\ logs_selected' = SatSub(logs_selected, PageSize)
            /\ follow_mode' = FALSE
            /\ UNCHANGED <<entries, paused>> /\ io' = << >>
      [] key = "G" ->
            /\ logs_selected' = LogsScrollToBottom(entries, logs_selected)
            /\ follow_mode' = TRUE
            /\ UNCHANGED <<entries, paused>> /\ io' = << >>
      [] key = "g" ->
            /\ logs_selected' = 0
            /\ follow_mode' = FALSE
            /\ UNCHANGED <<entries, paused>> /\ io' = << >>
      [] key = "p" ->
            \* toggle_pause
            /\ paused' = ~paused
            /\ UNCHANGED <<entries, follow_mode, logs_selected>> /\ io' = << >>
      [] key = "f" ->
            \* toggle_follow
            /\ follow_mode' = ~follow_mode
            /\ logs_selected' = IF ~follow_mode
                                THEN LogsScrollToBottom(entries, logs_selected)
                                ELSE logs_selected
            /\ UNCHANGED <<entries, paused>> /\ io' = << >>
      [] key = "c" ->
            \* clear
            /\ entries' = << >>
            /\ logs_selected' = 0
            /\ UNCHANGED <<paused, follow_mode>> /\ io' = << >>
      [] key = "r" -> load_entries(open_ok)
      [] OTHER -> UNCHANGED logsVars /\ io' = << >>

\* a tick that polls nothing
LogsTickSkipsPoll(open_ok) == UNCHANGED logsVars /\ io' = << >>

\* LogsContext::tick
LogsTick(open_ok) == LogsRefresh(open_ok)

(***************************************************************************)
(* UnitsContext (units.rs).                                                *)
(***************************************************************************)
UnitActions == {"Start", "Stop", "Enable", "Disable"}

\* UnitAction::label
label(a) ==
    CASE a = "Start" -> "start" [] a = "Stop" -> "stop"
      [] a = "Enable" -> "enable" [] a = "Disable" -> "disable"

\* the SystemdClient method tick invokes for an action
ClientMethod(a) ==
    CASE a = "Start" -> "start_unit" [] a = "Stop" -> "stop_unit"
      [] a = "Enable" -> "enable_unit" [] a = "Disable" -> "disable_unit"
LifecycleCalls == {ClientMethod(a) : a \in UnitActions}

\* the action an action key of the detail view asks for
ActionOfKey(key) ==
    CASE key = "s" -> "Start" [] key = "x" -> "Stop"
      [] key = "e" -> "Enable" [] key = "d" -> "Disable"
ActionKeys == {"s", "x", "e", "d"}

\* a current unit whatever the selected row is: the first of the list
SelectedUnitOfAnyRow(mode, fu, tree, sel) ==
    IF fu # << >> THEN Some(fu[1]) ELSE None

\* selected_unit
SelectedUnit(mode, fu, tree, sel) ==
    IF mode = "List"
    THEN (IF sel < Len(fu) THEN Some(fu[sel + 1]) ELSE None)
    ELSE IF sel < Len(tree) /\ tree[sel + 1].kind = "Unit"
         THEN tree[sel + 1].unit ELSE None
selected_unit == SelectedUnit(view_mode, filtered_units, tree_items, selected)

\* rebuild_tree_items, run on filtered list fu with collapse set collapsed
RebuildOver(names, fu, collapsed) ==
    /\ tree_items' = TreeOver(names, fu, collapsed)
    /\ collapsed_groups' = SeedCollapsed(names, collapsed)
rebuild_tree_items(fu, collapsed) == RebuildOver(GroupNames(fu), fu, collapsed)

\* apply_filter_and_sort once ranked_units is sorted: the list, the tree,
\* the clamp of the selection
ApplyFiltered(fu) ==
    /\ filtered_units' = fu
    /\ rebuild_tree_items(fu, collapsed_groups)
    /\ selected' = ClampSelected(selected, TotalItems(view_mode, fu, tree_items'))

\* apply_filter_and_sort, run on unit list us and filter flt
apply_filter_and_sort(us, flt, by, ascending) ==
    ApplyFiltered(FilteredUnits(us, flt, by, ascending))

\* refresh that drops the units it holds when list_units fails
refreshForgetsOnFailure(res) ==
    IF res.ok
    THEN /\ units' = res.units
         /\ apply_filter_and_sort(res.units, filter, sort_by, sort_ascending)
         /\ loading' = FALSE
         /\ error' = None
    ELSE /\ error' = Some("Failed to list units: " \o res.err)
         /\ loading' = FALSE
         /\ units' = << >>
         /\ UNCHANGED <<filtered_units, tree_items, collapsed_groups, selected>>

\* refresh, with the answer of list_units
refresh(res) ==
    IF res.ok
    THEN /\ units' = res.units
         /\ apply_filter_and_sort(res.units, filter, sort_by, sort_ascending)
         /\ loading' = FALSE
         /\ error' = None
    ELSE /\ error' = Some("Failed to list units: " \o res.err)
         /\ loading' = FALSE
         /\ UNCHANGED <<units, filtered_units, tree_items, collapsed_groups, selected>>

\* UnitsContext::scroll_to_bottom, as the new detail_log_scroll
ScrollToBottom == USIZE_MAX

\* the body of open_detail for the selected unit
Open(unit, open_ok) ==
    /\ detail_logs' = read_recent_unit_logs(journal, StrOf(unit.name),
                                            DetailLogLimit, open_ok)
    /\ detail_unit' = Some(unit)
    /\ confirm_action' = None
    /\ pending_action' = None
    /\ action_status' = None
    /\ detail_log_follow' = TRUE
    /\ detail_log_scroll' = ScrollToBottom
    /\ io' = <<Call("read_recent_unit_logs", StrOf(unit.name), 0)>>

open_detail(open_ok) ==
    IF IsSome(selected_unit) THEN Open(Unwrap(selected_unit), open_ok)
    ELSE UNCHANGED detailVars /\ io' = << >>

\* close_detail that leaves the pending action in place
close_detail_keeps_pending ==
    /\ detail_unit' = None
    /\ confirm_action' = None
    /\ pending_action' = pending_action
    /\ detail_log_scroll' = 0
    /\ detail_log_follow' = TRUE
    /\ UNCHANGED <<detail_logs, action_status>>

close_detail ==
    /\ detail_unit' = None
    /\ confirm_action' = None
    /\ pending_action' = None
    /\ detail_log_scroll' = 0
    /\ detail_log_follow' = TRUE
    /\ UNCHANGED <<detail_logs, action_status>>

\* the prompt with the default arm affirming: every key but n/N/Esc confirms
ConfirmKeyTakesAnyKey(key) ==
    /\ IF key \in {"n", "N", "Esc"}
       THEN confirm_action' = None /\ UNCHANGED pending_action
       ELSE pending_action' = confirm_action /\ confirm_action' = None
    /\ UNCHANGED <<detail_unit, detail_logs, action_status, detail_log_scroll,
                   detail_log_follow>>
    /\ UNCHANGED listVars
    /\ io' = << >>

\* handle_key while a confirmation prompt is outstanding (units.rs 590-601)
ConfirmKey(key) ==
    /\ IF key \in {"y", "Y"}
       THEN pending_action' = confirm_action /\ confirm_action' = None
       ELSE IF key \in {"n", "N", "Esc"}
       THEN confirm_action' = None /\ UNCHANGED pending_action
       ELSE UNCHANGED <<confirm_action, pending_action>>
    /\ UNCHANGED <<detail_unit, detail_logs, action_status, detail_log_scroll,
                   detail_log_follow>>
    /\ UNCHANGED listVars
    /\ io' = << >>

\* handle_key in the detail view with no prompt outstanding (units.rs 603-649)
DetailKey(key, open_ok) ==
    /\ UNCHANGED listVars
    /\ CASE key \in {"Esc", "q"} -> close_detail /\ io' = << >>
         [] key = "r" ->
               /\ detail_logs' = read_recent_unit_logs(journal,
                                     StrOf(Unwrap(detail_unit).name),
                                     DetailLogLimit, open_ok)
               /\ detail_log_scroll' = IF detail_log_follow THEN ScrollToBottom
                                       ELSE detail_log_scroll
               /\ UNCHANGED <<detail_unit, confirm_action, pending_action,
                              action_status, detail_log_follow>>
               /\ io' = <<Call("read_recent_unit_logs",
                               StrOf(Unwrap(detail_unit).name), 0)>>
         [] key \in {"j", "Down"} ->
               /\ detail_log_scroll' = SatAdd(detail_log_scroll, 1)
               /\ detail_log_follow' = FALSE
               /\ UNCHANGED <<detail_unit, detail_logs, confirm_action,
                              pending_action, action_status>>
               /\ io' = << >>
         [] key \in {"k", "Up"} ->
               /\ detail_log_scroll' = SatSub(detail_log_scroll, 1)
               /\ detail_log_follow' = FALSE
               /\ UNCHANGED <<detail_unit, detail_logs, confirm_action,
                              pending_action, action_status>>
               /\ io' = << >>
         [] key \in {"PageDown", " "} ->
               /\ detail_log_scroll' = SatAdd(detail_log_scroll, PageSize)
               /\ detail_log_follow' = FALSE
               /\ UNCHANGED <<detail_unit, detail_logs, confirm_action,
                              pending_action, action_status>>
               /\ io' = << >>
         [] key \in {"PageUp", "b"} ->
               /\ detail_log_scroll' = SatSub(detail_log_scroll, PageSize)
               /\ detail_log_follow' = FALSE
               /\ UNCHANGED <<detail_unit, detail_logs, confirm_action,
                              pending_action, action_status>>
               /\ io' = << >>
         [] key = "f" ->
               /\ detail_log_follow' = ~detail_log_follow
               /\ detail_log_scroll' = IF ~detail_log_follow THEN ScrollToBottom
                                       ELSE detail_log_scroll
               /\ UNCHANGED <<detail_unit, detail_logs, confirm_action,
                              pending_action, action_status>>
               /\ io' = << >>
         [] key = "G" ->
               /\ detail_log_scroll' = ScrollToBottom
               /\ detail_log_follow' = TRUE
               /\ UNCHANGED <<detail_unit, detail_logs, confirm_action,
                              pending_action, action_status>>
               /\ io' = << >>
         [] key = "g" ->
               /\ detail_log_scroll' = 0
               /\ detail_log_follow' = FALSE
               /\ UNCHANGED <<detail_unit, detail_logs, confirm_action,
                              pending_action, action_status>>
               /\ io' = << >>
         [] key \in ActionKeys ->
               /\ confirm_action' = Some(ActionOfKey(key))
               /\ UNCHANGED <<detail_unit, detail_logs, pending_action,
                              action_status, detail_log_scroll, detail_log_follow>>
               /\ io' = << >>
         [] OTHER -> UNCHANGED detailVars /\ io' = << >>

\* move_to_first_leaf_after_filter, as the new selected
FirstLeaf(mode, tree) ==
    IF mode = "List" THEN 0
    ELSE LET leaves == {i \in 1..Len(tree) : tree[i].kind = "Unit"}
         IN  IF leaves = {} THEN 0
             ELSE (CHOOSE i \in leaves : \A j \in leaves : i <= j) - 1

\* handle_key while the filter is being edited (units.rs 652-677)
FilterKey(key) ==
    /\ UNCHANGED detailVars
    /\ io' = << >>
    /\ CASE key = "Esc" ->
               /\ show_filter' = FALSE
               /\ filter_backup' = None
               /\ IF IsSome(filter_backup)
                  THEN /\ filter' = Unwrap(filter_backup)
                       /\ apply_filter_and_sort(units, Unwrap(filter_backup),
                                                sort_by, sort_ascending)
                  ELSE UNCHANGED <<filter, filtered_units, tree_items,
                                   collapsed_groups, selected>>
               /\ UNCHANGED <<units, scroll_offset, loading, error, view_mode,
                              sort_by, sort_ascending>>
         [] key = "Enter" ->
               /\ show_filter' = FALSE
               /\ filter_backup' = None
               /\ selected' = FirstLeaf(view_mode, tree_items)
               /\ scroll_offset' = 0
               /\ UNCHANGED <<units, filtered_units, tree_items, filter, loading,
                              error, view_mode, sort_by, sort_ascending,
                              collapsed_groups>>
         [] key = "Backspace" ->
               /\ filter' = SubSeq(filter, 1, Len(filter) - 1)
               /\ apply_filter_and_sort(units, SubSeq(filter, 1, Len(filter) - 1),
                                        sort_by, sort_ascending)
               /\ UNCHANGED <<units, scroll_offset, filter_backup, show_filter,
                              loading, error, view_mode, sort_by, sort_ascending>>
         [] Len(key) = 1 ->
               \* KeyCode::Char(c)
               /\ filter' = Append(filter, key)
               /\ apply_filter_and_sort(units, Append(filter, key),
                                        sort_by, sort_ascending)
               /\ UNCHANGED <<units, scroll_offset, filter_backup, show_filter,
                              loading, error, view_mode, sort_by, sort_ascending>>
         [] OTHER -> UNCHANGED listVars

\* a collapse set with the membership of one group flipped
Toggled(collapsed, group_name) ==
    IF group_name \in collapsed THEN collapsed \ {group_name}
    ELSE collapsed \cup {group_name}

\* toggle_current_group
toggle_current_group ==
    IF view_mode = "Tree" /\ selected < Len(tree_items)
       /\ tree_items[selected + 1].kind = "Group"
    THEN rebuild_tree_items(filtered_units,
                            Toggled(collapsed_groups, tree_items[selected + 1].name))
    ELSE UNCHANGED <<tree_items, collapsed_groups>>

\* handle_key on the unit list (units.rs 679-713)
ListKey(key, open_ok) ==
    LET max == TotalItems(view_mode, filtered_units, tree_items)
    IN
    CASE key \in {"j", "Down"} ->
            \* move_down
            /\ selected' = IF selected + 1 < max THEN selected + 1 ELSE selected
            /\ UNCHANGED <<units, filtered_units, tree_items, scroll_offset, filter,
                           filter_backup, show_filter, loading, error, view_mode,
                           sort_by, sort_ascending, collapsed_groups>>
            /\ UNCHANGED detailVars /\ io' = << >>
      [] key \in {"k", "Up"} ->
            \* move_up
            /\ selected' = IF selected > 0 THEN selected - 1 ELSE selected
            /\ UNCHANGED <<units, filtered_units, tree_items, scroll_offset, filter,
                           filter_backup, show_filter, loading, error, view_mode,
                           sort_by, sort_ascending, collapsed_groups>>
            /\ UNCHANGED detailVars /\ io' = << >>
      [] key = "g" ->
            \* go_top
            /\ selected' = 0
            /\ UNCHANGED <<units, filtered_units, tree_items, scroll_offset, filter,
                           filter_backup, show_filter, loading, error, view_mode,
                           sort_by, sort_ascending, collapsed_groups>>
            /\ UNCHANGED detailVars /\ io' = << >>
      [] key = "G" ->
            \* go_bottom
            /\ selected' = IF max > 0 THEN max - 1 ELSE selected
            /\ UNCHANGED <<units, filtered_units, tree_items, scroll_offset, filter,
                           filter_backup, show_filter, loading, error, view_mode,
                           sort_by, sort_ascending, collapsed_groups>>
            /\ UNCHANGED detailVars /\ io' = << >>
      [] key \in {" ", "PageDown"} ->
            \* page_down
            /\ selected' = Min(selected + PageSize, SatSub(max, 1))
            /\ UNCHANGED <<units, filtered_units, tree_items, scroll_offset, filter,
                           filter_backup, show_filter, loading, error, view_mode,
                           sort_by, sort_ascending, collapsed_groups>>
            /\ UNCHANGED detailVars /\ io' = << >>
      [] key \in {"b", "PageUp"} ->
            \* page_up
            /\ selected' = SatSub(selected, PageSize)
            /\ UNCHANGED <<units, filtered_units, tree_items, scroll_offset, filter,
                           filter_backup, show_filter, loading, error, view_mode,
                           sort_by, sort_ascending, collapsed_groups>>
            /\ UNCHANGED detailVars /\ io' = << >>
      [] key = "/" ->
            /\ filter_backup' = IF ~show_filter THEN Some(filter) ELSE filter_backup
            /\ show_filter' = TRUE
            /\ UNCHANGED <<units, filtered_units, tree_items, selected, scroll_offset,
                           filter, loading, error, view_mode, sort_by, sort_ascending,
                           collapsed_groups>>
            /\ UNCHANGED detailVars /\ io' = << >>
      [] key = "t" ->
            \* toggle_view_mode
            /\ view_mode' = IF view_mode = "List" THEN "Tree" ELSE "List"
            /\ selected' = 0
            /\ scroll_offset' = 0
            /\ IF view_mode = "List"
               THEN rebuild_tree_items(filtered_units, collapsed_groups)
               ELSE UNCHANGED <<tree_items, collapsed_groups>>
            /\ UNCHANGED <<units, filtered_units, filter, filter_backup, show_filter,
                           loading, error, sort_by, sort_ascending>>
            /\ UNCHANGED detailVars /\ io' = << >>
      [] key = "s" ->
            \* toggle_sort
            /\ sort_by' = IF sort_by = "Name" THEN "State" ELSE "Name"
            /\ apply_filter_and_sort(units, filter,
                   IF sort_by = "Name" THEN "State" ELSE "Name", sort_ascending)
            /\ UNCHANGED <<units, scroll_offset, filter, filter_backup, show_filter,
                           loading, error, view_mode, sort_ascending>>
            /\ UNCHANGED detailVars /\ io' = << >>
      [] key = "S" ->
            \* toggle_sort_direction
            /\ sort_ascending' = ~sort_ascending
            /\ apply_filter_and_sort(units, filter, sort_by, ~sort_ascending)
            /\ UNCHANGED <<units, scroll_offset, filter, filter_backup, show_filter,
                           loading, error, view_mode, sort_by>>
            /\ UNCHANGED detailVars /\ io' = << >>
      [] key = "Enter" ->
            IF IsSome(selected_unit)
            THEN open_detail(open_ok) /\ UNCHANGED listVars
            ELSE /\ toggle_current_group
                 /\ UNCHANGED <<units, filtered_units, selected, scroll_offset, filter,
                                filter_backup, show_filter, loading, error, view_mode,
                                sort_by, sort_ascending>>
                 /\ UNCHANGED detailVars /\ io' = << >>
      [] key = "e" ->
            \* expand_all
            /\ rebuild_tree_items(filtered_units, {})
            /\ UNCHANGED <<units, filtered_units, selected, scroll_offset, filter,
                           filter_backup, show_filter, loading, error, view_mode,
                           sort_by, sort_ascending>>
            /\ UNCHANGED detailVars /\ io' = << >>
      [] key = "c" ->
            \* collapse_all
            /\ rebuild_tree_items(filtered_units,
                   {tree_items[i].name :
                       i \in {j \in 1..Len(tree_items) : tree_items[j].kind = "Group"}})
            /\ UNCHANGED <<units, filtered_units, selected, scroll_offset, filter,
                           filter_backup, show_filter, loading, error, view_mode,
                           sort_by, sort_ascending>>
            /\ UNCHANGED detailVars /\ io' = << >>
      [] key = "Esc" ->
            /\ IF filter # << >>
               THEN /\ filter' = << >>
                    /\ apply_filter_and_sort(units, << >>, sort_by, sort_ascending)
               ELSE UNCHANGED <<filter, filtered_units, tree_items, collapsed_groups,
                                selected>>
            /\ UNCHANGED <<units, scroll_offset, filter_backup, show_filter, loading,
                           error, view_mode, sort_by, sort_ascending>>
            /\ UNCHANGED detailVars /\ io' = << >>
      [] OTHER -> UNCHANGED unitsVars /\ io' = << >>

\* UnitsContext::handle_key
UnitsHandleKey(key, open_ok) ==
    IF IsSome(detail_unit)
    THEN (IF IsSome(confirm_action) THEN ConfirmKey(key) ELSE DetailKey(key, open_ok))
    ELSE IF show_filter THEN FilterKey(key)
    ELSE ListKey(key, open_ok)

\* the status line tick records for an action on a unit
StatusLine(action, name, res) ==
    label(action) \o " " \o name \o ": " \o (IF res.ok THEN "OK" ELSE res.err)

\* draw_unit_popup: the scroll position the log panel is drawn at, visible
\* the number of rows of its area
DisplayedScroll(scroll, logs, visible) == Min(scroll, SatSub(Len(logs), visible))

\* the tail of tick once the detail logs are read again
Reloaded(logs) ==
    /\ detail_logs' = logs
    /\ detail_log_scroll' =
           IF detail_log_follow THEN ScrollToBottom
           ELSE Min(detail_log_scroll, SatSub(Len(logs), TickVisible))

\* the body of tick for a taken action on the open unit
Execute(action, name, call_res, list_res, open_ok) ==
    /\ action_status' = Some(StatusLine(action, name, call_res))
    /\ refresh(list_res)
    /\ Reloaded(read_recent_unit_logs(journal, name, DetailLogLimit, open_ok))
    /\ UNCHANGED <<detail_unit, confirm_action, detail_log_follow>>
    /\ UNCHANGED <<scroll_offset, filter, filter_backup, show_filter,
                   view_mode, sort_by, sort_ascending>>
    /\ io' = <<Call(ClientMethod(action), name, 0),
               Call("list_units", "", 0),
               Call("read_recent_unit_logs", name, 0)>>

\* tick reading pending_action without taking it
UnitsTickKeepsPending(call_res, list_res, open_ok) ==
    IF IsSome(pending_action)
    THEN /\ UNCHANGED pending_action
         /\ IF IsSome(detail_unit)
            THEN Execute(Unwrap(pending_action), StrOf(Unwrap(detail_unit).name),
                         call_res, list_res, open_ok)
            ELSE /\ UNCHANGED <<detail_unit, detail_logs, confirm_action,
                                action_status, detail_log_scroll, detail_log_follow>>
                 /\ UNCHANGED listVars
                 /\ io' = << >>
    ELSE UNCHANGED unitsVars /\ io' = << >>

\* UnitsContext::tick: call_res, list_res and open_ok are what the lifecycle
\* call, list_units and sd_journal_open answer if they are reached
UnitsTick(call_res, list_res, open_ok) ==
    IF IsSome(pending_action)
    THEN /\ pending_action' = None
         /\ IF IsSome(detail_unit)
            THEN Execute(Unwrap(pending_action), StrOf(Unwrap(detail_unit).name),
                         call_res, list_res, open_ok)
            ELSE /\ UNCHANGED <<detail_unit, detail_logs, confirm_action,
                                action_status, detail_log_scroll, detail_log_follow>>
                 /\ UNCHANGED listVars
                 /\ io' = << >>
    ELSE UNCHANGED unitsVars /\ io' = << >>

(***************************************************************************)
(* The application shell (main.rs run_app / handle_key, app.rs App).       *)
(***************************************************************************)
ContextCount == 6
UnitsContextIndex == 0
LogsContextIndex == 5

\* the context the digit keys '1'..'6' select
ContextOfDigit(key) ==
    CASE key = "1" -> 0 [] key = "2" -> 1 [] key = "3" -> 2
      [] key = "4" -> 3 [] key = "5" -> 4 [] key = "6" -> 5
DigitKeys == {"1", "2", "3", "4", "5", "6"}

\* the values of detail_log_scroll the model follows
InScrollRange(scroll) == scroll <= MaxScroll \/ scroll >= USIZE_MAX - MaxScroll

\* App::handle_key: the key goes to the current context unless help is shown
AppHandleKey(key, open_ok) ==
    IF show_help
    THEN /\ show_help' = FALSE
         /\ UNCHANGED <<unitsVars, logsVars>> /\ io' = << >>
    ELSE /\ UNCHANGED show_help
         /\ CASE current_context = UnitsContextIndex ->
                    UnitsHandleKey(key, open_ok) /\ UNCHANGED logsVars
              [] current_context = LogsContextIndex ->
                    LogsHandleKey(key, open_ok) /\ UNCHANGED unitsVars
              [] OTHER ->
                    \* network, dns, host, boot: panels outside this model
                    UNCHANGED <<unitsVars, logsVars>> /\ io' = << >>

\* the affirmative key reaches a confirmation prompt of the units context
AffirmsPrompt(key) ==
    /\ key \in {"y", "Y"}
    /\ ~show_help
    /\ current_context = UnitsContextIndex
    /\ IsSome(detail_unit)
    /\ IsSome(confirm_action)

\* main.rs handle_key: one key press read by run_app
HandleKey(key, open_ok) ==
    /\ running
    /\ CASE key \in {"q", "Q"} ->
               /\ running' = FALSE
               /\ UNCHANGED <<current_context, show_help, unitsVars, logsVars>>
               /\ io' = << >>
         [] key = "?" ->
               /\ show_help' = ~show_help
               /\ UNCHANGED <<running, current_context, unitsVars, logsVars>>
               /\ io' = << >>
         [] key = "Tab" ->
               /\ current_context' = (current_context + 1) % ContextCount
               /\ UNCHANGED <<running, show_help, unitsVars, logsVars>>
               /\ io' = << >>
         [] key = "BackTab" ->
               /\ current_context' = IF current_context = 0 THEN ContextCount - 1
                                     ELSE current_context - 1
               /\ UNCHANGED <<running, show_help, unitsVars, logsVars>>
               /\ io' = << >>
         [] key \in DigitKeys ->
               /\ current_context' = ContextOfDigit(key)
               /\ UNCHANGED <<running, show_help, unitsVars, logsVars>>
               /\ io' = << >>
         [] OTHER ->
               /\ AppHandleKey(key, open_ok)
               /\ UNCHANGED <<running, current_context>>
    /\ affirmed' = IF AffirmsPrompt(key)
                   THEN Some([action |-> Unwrap(confirm_action),
                              unit |-> StrOf(Unwrap(detail_unit).name)])
                   ELSE affirmed
    /\ armed' = IF AffirmsPrompt(key) THEN TRUE
                ELSE IF IsSome(detail_unit) /\ ~IsSome(detail_unit') THEN FALSE
                ELSE armed
    /\ ticked' = FALSE
    /\ UNCHANGED journal
    /\ Len(filter') <= MaxFilterLen
    /\ InScrollRange(detail_log_scroll')

\* App::tick: only the current context is ticked
AppTick(call_res, list_res, open_ok) ==
    /\ running
    /\ CASE current_context = UnitsContextIndex ->
               UnitsTick(call_res, list_res, open_ok) /\ UNCHANGED logsVars
         [] current_context = LogsContextIndex ->
               LogsTick(open_ok) /\ UNCHANGED unitsVars
         [] OTHER -> UNCHANGED <<unitsVars, logsVars>> /\ io' = << >>
    /\ armed' = FALSE
    /\ ticked' = TRUE
    /\ UNCHANGED <<shellVars, journal, affirmed>>

\* the host writes one more record to the journal, stamped no earlier than
\* the last one
JournalAppend(r) ==
    /\ running
    /\ Len(journal) < MaxJournal
    /\ journal # << >> =>
           r.realtime \in {journal[Len(journal)].realtime,
                           journal[Len(journal)].realtime + 1}
    /\ journal = << >> => r.realtime = 1
    /\ journal' = Append(journal, r)
    /\ ticked' = FALSE
    /\ io' = << >>
    /\ UNCHANGED <<shellVars, unitsVars, logsVars, affirmed, armed>>

\* the state after App::new: each context is constructed, UnitsContext::new
\* ends with refresh and LogsContext::new with load_entries.  journals,
\* answers and opens are the journals the host may hold, what list_units may
\* answer and whether sd_journal_open may succeed.
Boot(journals, answers, opens) ==
    /\ running = TRUE
    /\ current_context = 0
    /\ show_help = FALSE
    /\ journal \in journals
    /\ \E res \in answers :
          /\ units = res.units
          /\ filtered_units = FilteredUnits(res.units, << >>, "Name", TRUE)
          /\ tree_items = TreeItems(filtered_units, {})
          /\ collapsed_groups = CollapsedAfterRebuild(filtered_units, {})
          /\ error = IF res.ok THEN None
                     ELSE Some("Failed to list units: " \o res.err)
    /\ selected = 0
    /\ scroll_offset = 0
    /\ filter = << >>
    /\ filter_backup = None
    /\ show_filter = FALSE
    /\ loading = FALSE
    /\ view_mode = "Tree"
    /\ sort_by = "Name"
    /\ sort_ascending = TRUE
    /\ detail_unit = None
    /\ detail_logs = << >>
    /\ confirm_action = None
    /\ pending_action = None
    /\ action_status = None
    /\ detail_log_scroll = 0
    /\ detail_log_follow = TRUE
    /\ paused = FALSE
    /\ follow_mode = TRUE
    /\ \E open_ok \in opens :
          /\ entries = AddAll(<< >>, 0, read_recent(journal, filter_unit, RecentLimit,
                                                    open_ok))[1]
          /\ logs_selected = LogsScrollToBottom(entries, 0)
    /\ io = << >>
    /\ affirmed = None
    /\ armed = FALSE
    /\ ticked = FALSE

(***************************************************************************)
(* Spec: the action workflow.  The user works in the units context, on a   *)
(* host whose journal holds one record of ssh.service, and visits one      *)
(* other context.                                                          *)
(***************************************************************************)
SshStarted ==
    JournalRecord(1, Some("started"), Some("ssh.service"), Some("sshd"), Some("3"))

Init == Boot({<<SshStarted>>}, ListResults, {TRUE})

\* the keys of the action workflow: to another context and back, the keys
\* that open and close the detail view, the action keys, the answers to the
\* prompt, a key no handler knows
WorkflowKeys == {"1", "2", "Enter", "Esc", "G", "s", "x", "e", "d",
                 "y", "Y", "n", "N", "F1"}

KeyPress == \E key \in WorkflowKeys, open_ok \in BOOLEAN : HandleKey(key, open_ok)
Tick == \E call_res \in CallResults, list_res \in ListResults, open_ok \in BOOLEAN :
            AppTick(call_res, list_res, open_ok)

Next == KeyPress \/ Tick
Spec == Init /\ [][Next]_vars

(***************************************************************************)
(* SpecLogs: the log panel.  The unit manager is unreachable, so the units *)
(* context stays empty; the journal starts empty and the host writes to it *)
(* while the user works in the log panel, the help overlay and one other   *)
(* context.                                                                *)
(***************************************************************************)
\* the records the host writes while the log panel is watched
LogShapes(ts) ==
    { JournalRecord(ts, Some("started"), Some("ssh.service"), Some("sshd"), Some("3")),
      JournalRecord(ts, None, Some("ssh.service"), None, Some("6")) }

ListFailures == {r \in ListResults : ~r.ok}
InitLogs == Boot({<< >>}, ListFailures, BOOLEAN)

LogsKeys == {"q", "?", "2", "6", "j", "k", " ", "b", "G", "g", "p", "f", "c", "r", "F1"}

LogsKeyPress == \E key \in LogsKeys, open_ok \in BOOLEAN : HandleKey(key, open_ok)
LogsAppTick == \E call_res \in CallResults, list_res \in ListFailures,
                  open_ok \in BOOLEAN : AppTick(call_res, list_res, open_ok)
Journald == \E ts \in 1..(MaxJournal + 1) : \E r \in LogShapes(ts) : JournalAppend(r)

NextLogs == LogsKeyPress \/ LogsAppTick \/ Journald
SpecLogs == InitLogs /\ [][NextLogs]_vars

(***************************************************************************)
(* SpecDirectory: the unit directory.  The unit manager answers, the       *)
(* journal is empty, and the user browses the directory of the units       *)
(* context: moves the selection, edits, applies and cancels the filter,    *)
(* sorts, switches between list and tree, collapses and expands groups,    *)
(* without opening a unit.                                                 *)
(***************************************************************************)
\* a unit the unit manager reports under a name with no '.'
SshBare == UnitInfo(<<"s", "s", "h">>, << >>, Active, "running")
ListAnswers == {r \in ListResults : r.ok}
               \cup {[ok |-> TRUE, units |-> <<SshBare>>, err |-> ""]}
InitDirectory == Boot({<< >>}, ListAnswers, {TRUE})

\* the keys pressed on the list, and those pressed while the filter is edited
ListModeKeys == {"j", "k", "g", "G", " ", "b", "/", "t", "s", "S", "Enter", "e", "c",
                 "Esc", "F1"}
FilterModeKeys == {"s", "k", " ", "S", "Enter", "Esc", "Backspace"}
\* the filters in force when the user starts to edit the filter
EditedFrom == {<< >>, <<"k">>}

DirectoryKeyPress ==
    \E key \in (IF show_filter THEN FilterModeKeys ELSE ListModeKeys) :
        /\ (key = "Enter" /\ ~show_filter) => ~IsSome(selected_unit)
        /\ key = "/" => filter \in EditedFrom
        /\ HandleKey(key, TRUE)
DirectoryTick == \E call_res \in CallResults, list_res \in ListAnswers :
                    AppTick(call_res, list_res, TRUE)

NextDirectory == DirectoryKeyPress \/ DirectoryTick
SpecDirectory == InitDirectory /\ [][NextDirectory]_vars

(***************************************************************************)
(* SpecSelection: the selection across rebuilds.  The user moves to the    *)
(* last row, switches between list and tree, edits and applies a filter,   *)
(* opens a unit and has an action run on it, whose tick refreshes the       *)
(* directory from the unit manager.                                        *)
(***************************************************************************)
InitSelection == Boot({<< >>}, ListResults, {TRUE})

\* the keys pressed on the list, while the filter is edited, in the detail
\* view and on its confirmation prompt
SelectionListKeys == {"G", "t", "/", "Enter"}
SelectionFilterKeys == {"k", "Enter", "Esc"}
SelectionDetailKeys == {"x", "Esc"}
SelectionPromptKeys == {"y", "n"}

SelectionKeyPress ==
    \E key \in (IF IsSome(detail_unit)
                THEN (IF IsSome(confirm_action) THEN SelectionPromptKeys
                      ELSE SelectionDetailKeys)
                ELSE IF show_filter THEN SelectionFilterKeys
                ELSE SelectionListKeys) :
        /\ key = "/" => filter = << >>
        /\ HandleKey(key, TRUE)
SelectionTick == \E list_res \in ListResults :
                    AppTick([ok |-> TRUE, err |-> ""], list_res, TRUE)

NextSelection == SelectionKeyPress \/ SelectionTick
SpecSelection == InitSelection /\ [][NextSelection]_vars

(***************************************************************************)
(* SpecDetail: the log panel of the unit detail view.  The journal starts  *)
(* empty and the host writes records of ssh.service to it while the user   *)
(* opens the detail view, scrolls, reloads and takes an action.            *)
(***************************************************************************)
InitDetail == Boot({<< >>}, {r \in ListResults : r.ok /\ r.units # << >>}, {TRUE})

DetailListKeys == {"j", "Enter"}
DetailViewKeys == {"k", "b", "j", "G", "g", "f", "r", "x", "Esc"}
DetailPromptKeys == {"y", "n"}

DetailKeyPress ==
    \E key \in (IF IsSome(detail_unit)
                THEN (IF IsSome(confirm_action) THEN DetailPromptKeys ELSE DetailViewKeys)
                ELSE DetailListKeys) :
        HandleKey(key, TRUE)
DetailTick == \E list_res \in {r \in ListResults : r.ok /\ r.units # << >>} :
                  AppTick([ok |-> TRUE, err |-> ""], list_res, TRUE)
DetailJournald == \E ts \in 1..(MaxJournal + 1) : \E r \in LogShapes(ts) : JournalAppend(r)

NextDetail == DetailKeyPress \/ DetailTick \/ DetailJournald
SpecDetail == InitDetail /\ [][NextDetail]_vars

(***************************************************************************)
(* Properties of the action workflow, under Spec.                          *)
(***************************************************************************)
\* the places of the lifecycle calls among the calls of a step
LifecycleCallsIn(calls) == {i \in 1..Len(calls) : calls[i].call \in LifecycleCalls}

\* the workflow states the two fields encode
Idle == confirm_action = None /\ pending_action = None

\* a key the shell hands on, and App::handle_key routes to the units context
ReachesUnits(key) ==
    /\ key \notin {"q", "Q", "?", "Tab", "BackTab"} \cup DigitKeys
    /\ ~show_help
    /\ current_context = UnitsContextIndex

\* the collaborator operation and the label of each action, as the
\* specification lists them
OperationOf == [Start |-> "start_unit", Stop |-> "stop_unit",
                Enable |-> "enable_unit", Disable |-> "disable_unit"]
LabelOf == [Start |-> "start", Stop |-> "stop",
            Enable |-> "enable", Disable |-> "disable"]
KeyOf == [Start |-> "s", Stop |-> "x", Enable |-> "e", Disable |-> "d"]

\* C1: every lifecycle call a step issues is the operation of the action, on
\* the unit, of the last affirmative key pressed on a prompt; pending_action
\* is set only by y/Y pressed on a prompt of the open detail view, to the
\* action of that prompt; and a prompt for an action appears only when that
\* action's key is pressed in the open detail view.
C1_CallsAreConfirmed ==
    [][ /\ \A i \in LifecycleCallsIn(io') :
              /\ IsSome(affirmed)
              /\ io'[i].call = OperationOf[Unwrap(affirmed).action]
              /\ io'[i].arg = Unwrap(affirmed).unit
        /\ (IsSome(pending_action') /\ pending_action' # pending_action) =>
              \E key \in {"y", "Y"}, open_ok \in BOOLEAN :
                  /\ HandleKey(key, open_ok)
                  /\ ReachesUnits(key)
                  /\ IsSome(detail_unit)
                  /\ IsSome(confirm_action)
                  /\ pending_action' = confirm_action
        /\ (IsSome(confirm_action') /\ confirm_action' # confirm_action) =>
              \E a \in UnitActions, open_ok \in BOOLEAN :
                  /\ HandleKey(KeyOf[a], open_ok)
                  /\ ReachesUnits(KeyOf[a])
                  /\ IsSome(detail_unit)
                  /\ confirm_action' = Some(a)
      ]_vars

\* a tick has just issued the call of the action that was affirmed
C1_ConfirmedCallIssued ==
    /\ IsSome(affirmed)
    /\ \E i \in LifecycleCallsIn(io) :
          /\ io[i].call = OperationOf[Unwrap(affirmed).action]
          /\ io[i].arg = Unwrap(affirmed).unit

\* C2: no step issues a lifecycle call while a confirmation prompt is
\* outstanding (confirm_action is set).
C2_NoCallWhileConfirming ==
    [][IsSome(confirm_action) => LifecycleCallsIn(io') = {}]_vars

\* C3: confirm_action and pending_action are never both set, so the workflow
\* is in exactly one of Idle, Confirming(action), Pending(action).
C3_OneWorkflowState == ~(IsSome(confirm_action) /\ IsSome(pending_action))

\* C4: a tick of the units context leaves no pending action and issues at
\* most one lifecycle call, and only for an action that was pending; a tick
\* that finds none pending issues no call and leaves the units context, the
\* unit list included, as it was.
C4_PendingIsSingleShot ==
    [][ (ticked' /\ current_context = UnitsContextIndex) =>
           /\ pending_action' = None
           /\ Cardinality(LifecycleCallsIn(io')) <= 1
           /\ LifecycleCallsIn(io') # {} => IsSome(pending_action)
           /\ ~IsSome(pending_action) => (io' = << >> /\ UNCHANGED unitsVars)
      ]_vars

\* a tick has consumed a pending action: its call is issued, none is pending
C4_PendingConsumed ==
    /\ Cardinality(LifecycleCallsIn(io)) = 1
    /\ pending_action = None
    /\ IsSome(action_status)

\* what a tick does with Pending(action) and a unit open in the detail view:
\* the one matching call on the unit's name, then list_units, then the read
\* of the unit's logs; the status line; the new unit list and detail logs
TickExecutes(action, call_res, list_res, open_ok) ==
    /\ io' = <<Call(OperationOf[action], StrOf(Unwrap(detail_unit).name), 0),
               Call("list_units", "", 0),
               Call("read_recent_unit_logs", StrOf(Unwrap(detail_unit).name), 0)>>
    /\ action_status' =
           Some(LabelOf[action] \o " " \o StrOf(Unwrap(detail_unit).name) \o ": "
                \o (IF call_res.ok THEN "OK" ELSE call_res.err))
    /\ list_res.ok => units' = list_res.units
    /\ detail_logs' = read_recent_unit_logs(journal, StrOf(Unwrap(detail_unit).name),
                                            DetailLogLimit, open_ok)

\* C5: a tick with Pending(action) set and unit u open in the detail view
\* issues exactly the operation matching the action, once, on u.name, sets
\* the status line to "<label> <u.name>: OK" or "<label> <u.name>: <error>",
\* then refreshes the unit list and reloads the unit's logs; after a failed
\* call the workflow is in Idle.
C5_TickExecutesPending ==
    [][ \A action \in UnitActions :
           (/\ ticked'
            /\ current_context = UnitsContextIndex
            /\ pending_action = Some(action)
            /\ IsSome(detail_unit)) =>
               \A call_res \in CallResults, list_res \in ListResults,
                  open_ok \in BOOLEAN :
                     AppTick(call_res, list_res, open_ok) =>
                        /\ TickExecutes(action, call_res, list_res, open_ok)
                        /\ ~call_res.ok => Idle'
      ]_vars

\* the part of C5 before its last clause
C5_TickEffect ==
    [][ \A action \in UnitActions :
           (/\ ticked'
            /\ current_context = UnitsContextIndex
            /\ pending_action = Some(action)
            /\ IsSome(detail_unit)) =>
               /\ \E call_res \in CallResults, list_res \in ListResults,
                     open_ok \in BOOLEAN : AppTick(call_res, list_res, open_ok)
               /\ \A call_res \in CallResults, list_res \in ListResults,
                     open_ok \in BOOLEAN :
                        AppTick(call_res, list_res, open_ok) =>
                           /\ TickExecutes(action, call_res, list_res, open_ok)
                           /\ pending_action' = None
      ]_vars

\* what a key leaves alone when it only answers the prompt
PromptFrame ==
    /\ UNCHANGED <<pending_action, action_status, detail_unit, detail_logs,
                   detail_log_scroll, detail_log_follow>>
    /\ UNCHANGED listVars
    /\ LifecycleCallsIn(io') = {}

\* C6: in Confirming, n/N/Esc returns the workflow to Idle: it clears
\* confirm_action, leaves pending_action, action_status, detail_unit, the
\* detail logs, their scroll and follow, the unit list, filter and selection
\* unchanged and issues no lifecycle call; any key other than y/Y/n/N/Esc
\* changes nothing.
C6_CancelReturnsToIdle ==
    [][ (~ticked' /\ IsSome(detail_unit) /\ IsSome(confirm_action)) =>
           \A key \in WorkflowKeys, open_ok \in BOOLEAN :
              (HandleKey(key, open_ok) /\ ReachesUnits(key)) =>
                  IF key \in {"n", "N", "Esc"}
                  THEN confirm_action' = None /\ PromptFrame /\ Idle'
                  ELSE key \notin {"y", "Y"} => (UNCHANGED unitsVars /\ io' = << >>)
      ]_vars

\* the effects C6 lists, without the state the workflow is left in
C6_CancelFrame ==
    [][ (~ticked' /\ IsSome(detail_unit) /\ IsSome(confirm_action)) =>
           \A key \in WorkflowKeys, open_ok \in BOOLEAN :
              (HandleKey(key, open_ok) /\ ReachesUnits(key)) =>
                  IF key \in {"n", "N", "Esc"}
                  THEN confirm_action' = None /\ PromptFrame
                  ELSE key \notin {"y", "Y"} => (UNCHANGED unitsVars /\ io' = << >>)
      ]_vars

\* C7: the first App::tick after an affirmative key, the detail view not
\* having closed in between, issues the lifecycle call of the affirmed
\* action on the affirmed unit, whatever keys were pressed in between.
C7_NextTickExecutes ==
    [][ (ticked' /\ armed) =>
           \E i \in LifecycleCallsIn(io') :
              /\ io'[i].call = OperationOf[Unwrap(affirmed).action]
              /\ io'[i].arg = Unwrap(affirmed).unit
      ]_vars

(***************************************************************************)
(* Properties of the log panel, under SpecLogs.                            *)
(***************************************************************************)
\* the records a since-read returns: of those stamped after the cursor that
\* hold a MESSAGE, the first SinceCap, oldest first; none if the journal
\* cannot be opened
Readable(j, cursor) ==
    SelectSeq(j, LAMBDA r : r.MESSAGE # None /\ r.realtime > cursor)
FreshSince(j, cursor, open_ok) ==
    IF open_ok
    THEN [i \in 1..Min(SinceCap, Len(Readable(j, cursor))) |->
             Unwrap(read_current_entry(Readable(j, cursor)[i]))]
    ELSE << >>

\* the last n elements of a sequence
KeepLast(s, n) == SubSeq(s, Max(Len(s) - n, 0) + 1, Len(s))

\* the timestamp of the newest entry held, 0 if none
Cursor == IF entries = << >> THEN 0 ELSE entries[Len(entries)].timestamp_micros

\* what a poll does to the buffer
Polls(open_ok) ==
    /\ io' = <<Call("read_since", "", Cursor)>>
    /\ entries' = KeepLast(entries \o FreshSince(journal, Cursor, open_ok), max_entries)

C9_BufferBounded == Len(entries) <= max_entries

\* a poll that started from a buffer holding an entry has left the buffer
\* full of entries newer than its cursor: it pushed past the capacity
C9_PollOverflowed ==
    /\ Len(io) = 1 /\ io[1].call = "read_since"
    /\ io[1].cursor > 0
    /\ Len(entries) = max_entries
    /\ \A i \in 1..Len(entries) : entries[i].timestamp_micros > io[1].cursor

\* the entries add_entry is tried with
ProbeEntries == {Unwrap(read_current_entry(r)) :
                    r \in {x \in LogShapes(MaxJournal + 1) : x.MESSAGE # None}}

\* C10: add_entry on a full buffer drops exactly the oldest entry, keeps the
\* length at the capacity, and moves the selection down by one if it is above
\* 0, leaving it at 0 otherwise, so that a selection above 0 denotes the entry
\* it denoted; a poll that reads one record into a full buffer does just that.
C10_FullBufferEvictsOldest ==
    [][ /\ Len(entries) = max_entries =>
              \A e \in ProbeEntries :
                 /\ add_entry(entries, logs_selected, e)[1] = Tail(entries) \o <<e>>
                 /\ Len(add_entry(entries, logs_selected, e)[1]) = max_entries
                 /\ add_entry(entries, logs_selected, e)[2] =
                        (IF logs_selected > 0 THEN logs_selected - 1 ELSE 0)
        /\ \A call_res \in CallResults, list_res \in ListResults, open_ok \in BOOLEAN :
              (/\ ticked'
               /\ current_context = LogsContextIndex
               /\ ~paused
               /\ Len(entries) = max_entries
               /\ Len(FreshSince(journal, Cursor, open_ok)) = 1
               /\ AppTick(call_res, list_res, open_ok)) =>
                  /\ entries' = Tail(entries) \o FreshSince(journal, Cursor, open_ok)
                  /\ Len(entries') = max_entries
                  /\ logs_selected' = (IF logs_selected > 0 THEN logs_selected - 1 ELSE 0)
                  /\ logs_selected > 0 =>
                        entries'[logs_selected' + 1] = entries[logs_selected + 1]
      ]_vars

\* a poll in follow mode has appended a record and the selection is no longer
\* on the newest entry: the buffer was full, the oldest entry went and the
\* selection moved down with it
C10_SelectionShifted ==
    /\ follow_mode
    /\ Len(io) = 1 /\ io[1].call = "read_since"
    /\ Len(entries) = max_entries
    /\ entries[Len(entries)].timestamp_micros > io[1].cursor
    /\ logs_selected < Len(entries) - 1

\* the cursors a since-read is tried with, and the unit matches
ProbeCursors == 0..(MaxJournal + 2)
ProbeUnits == {None, Some("ssh.service")}

\* C11: a since-read with cursor T returns no record stamped at or before T,
\* whatever the journal holds, whether or not a unit is matched, and wherever
\* the seek lands (also on a record stamped exactly T).
C11_SinceReadsOnlyNewer ==
    \A T \in ProbeCursors, unit \in ProbeUnits, open_ok \in BOOLEAN,
       seek_back \in SeekBacks :
        \A i \in 1..Len(read_since(journal, unit, T, open_ok, seek_back)) :
            read_since(journal, unit, T, open_ok, seek_back)[i].timestamp_micros > T

\* a poll has just read from a cursor T > 0 and appended a newer record,
\* while a seek to the closest record lands on a readable record stamped
\* exactly T
C11_SeekLandsOnCursor ==
    /\ Len(io) = 1 /\ io[1].call = "read_since"
    /\ io[1].cursor > 0
    /\ entries # << >>
    /\ entries[Len(entries)].timestamp_micros > io[1].cursor
    /\ SeekLanding(journal, io[1].cursor + 1, 1) <= Len(journal)
    /\ journal[SeekLanding(journal, io[1].cursor + 1, 1)].realtime = io[1].cursor
    /\ journal[SeekLanding(journal, io[1].cursor + 1, 1)].MESSAGE # None

\* the records of a journal a read with a unit match iterates, and of the
\* newest n of them those that hold a MESSAGE, oldest first
Eligible(j, unit) == SelectSeq(j, LAMBDA r : unit = None \/ r.SYSTEMD_UNIT = unit)
NewestReadable(j, unit, n) ==
    SelectSeq(KeepLast(Eligible(j, unit), n), LAMBDA r : r.MESSAGE # None)
\* a sequence of entries is in chronological order
Chronological(es) ==
    \A i \in 1..Len(es), k \in 1..Len(es) :
        i < k => es[i].timestamp_micros <= es[k].timestamp_micros

\* C12: a recent-read with limit N returns at most N records, those the
\* backward walk of N steps from the newest record of the (unit-matched)
\* journal passes, oldest first; so do the read of the log panel and the read
\* of the unit detail panel.
C12_RecentReadsNewestInOrder ==
    \A unit \in ProbeUnits, open_ok \in BOOLEAN :
        /\ Len(read_recent(journal, unit, RecentLimit, open_ok)) <= RecentLimit
        /\ Chronological(read_recent(journal, unit, RecentLimit, open_ok))
        /\ open_ok =>
              read_recent(journal, unit, RecentLimit, open_ok) =
                [i \in 1..Len(NewestReadable(journal, unit, RecentLimit)) |->
                    Unwrap(read_current_entry(NewestReadable(journal, unit, RecentLimit)[i]))]
        /\ ~open_ok => read_recent(journal, unit, RecentLimit, open_ok) = << >>
        /\ unit # None =>
              /\ Len(read_recent_unit_logs(journal, Unwrap(unit), DetailLogLimit, open_ok))
                    <= DetailLogLimit
              /\ Chronological(read_recent_unit_logs(journal, Unwrap(unit),
                                                     DetailLogLimit, open_ok))
              /\ open_ok =>
                    read_recent_unit_logs(journal, Unwrap(unit), DetailLogLimit, open_ok) =
                      [i \in 1..Len(NewestReadable(journal, unit, DetailLogLimit)) |->
                          Unwrap(read_journal_entry(
                                   NewestReadable(journal, unit, DetailLogLimit)[i]))]

\* the log panel has just been reloaded from a journal longer than the
\* limit, and holds entries of different stamps
C12_ReloadHitLimit ==
    /\ Len(io) = 1 /\ io[1].call = "read_recent"
    /\ Len(journal) > RecentLimit
    /\ entries # << >>
    /\ entries[1].timestamp_micros < entries[Len(entries)].timestamp_micros
    /\ entries[1].timestamp_micros > journal[1].realtime

\* C13: in follow mode and not paused, a poll that leaves the buffer longer
\* than it found it leaves the selection on the newest entry.
C13_FollowTracksGrowth ==
    [][ (/\ ticked'
         /\ current_context = LogsContextIndex
         /\ follow_mode /\ ~paused
         /\ Len(entries') > Len(entries)) =>
            logs_selected' = Len(entries') - 1
      ]_vars

\* a poll in follow mode has appended to a buffer of one entry, and the
\* selection has moved from that entry to the new one
C13_FollowedToNewest ==
    /\ follow_mode /\ ~paused
    /\ Len(io) = 1 /\ io[1].call = "read_since"
    /\ Len(entries) = 2
    /\ entries[1].timestamp_micros = io[1].cursor
    /\ entries[2].timestamp_micros > io[1].cursor
    /\ logs_selected = 1

\* a key the shell hands on, and App::handle_key routes to the log panel
ReachesLogs(key) ==
    /\ key \notin {"q", "Q", "?", "Tab", "BackTab"} \cup DigitKeys
    /\ ~show_help
    /\ current_context = LogsContextIndex
\* a key the units context hands to the keys of its detail log panel
ReachesDetail(key) ==
    /\ ReachesUnits(key)
    /\ detail_unit # None
    /\ confirm_action = None
\* up, down, page-up, page-down and go-to-top, in both panels
ScrollKeys == {"k", "Up", "j", "Down", "b", "PageUp", " ", "PageDown", "g"}

\* C14: in the log panel and in the unit detail log panel, each of up, down,
\* page-up, page-down and go-to-top leaves follow off, and 'G' leaves follow
\* on with the view at the newest record.
C14_ScrollDisablesFollow ==
    [][ ~ticked' =>
          \A key \in LogsKeys \cup WorkflowKeys, open_ok \in BOOLEAN :
             HandleKey(key, open_ok) =>
                /\ (ReachesLogs(key) /\ key \in ScrollKeys) => ~follow_mode'
                /\ (ReachesLogs(key) /\ key = "G") =>
                       /\ follow_mode'
                       /\ entries # << >> => logs_selected' = Len(entries) - 1
                /\ (ReachesDetail(key) /\ key \in ScrollKeys) => ~detail_log_follow'
                /\ (ReachesDetail(key) /\ key = "G") =>
                       /\ detail_log_follow'
                       /\ detail_log_scroll' = USIZE_MAX
      ]_vars

\* C15: while the log panel is paused a tick leaves its entries, selection
\* and follow flag as they were and reads nothing; the pause key changes the
\* paused flag and nothing else; and a poll of the panel, so the first one
\* after the pause ends, reads from the stamp of the newest entry held.
C15_PauseFreezesBuffer ==
    [][ /\ (ticked' /\ paused) =>
              /\ UNCHANGED <<entries, logs_selected, follow_mode, paused>>
              /\ io' = << >>
        /\ (~ticked' /\ ReachesLogs("p")) =>
              \A open_ok \in BOOLEAN :
                 HandleKey("p", open_ok) =>
                    /\ paused' = ~paused
                    /\ UNCHANGED <<entries, logs_selected, follow_mode, shellVars,
                                   unitsVars, journal>>
                    /\ io' = << >>
        /\ (ticked' /\ ~paused /\ current_context = LogsContextIndex) =>
              io' = <<Call("read_since", "", Cursor)>>
      ]_vars

\* the paused log panel has just been ticked while the journal holds a
\* record newer than the newest entry held: a poll would have appended it
C15_TickedWhilePaused ==
    /\ ticked /\ paused
    /\ current_context = LogsContextIndex
    /\ entries # << >>
    /\ Readable(journal, Cursor) # << >>

\* C16: when the journal cannot be opened a since-read returns no record;
\* the poll then leaves the entries, the selection, the follow and paused
\* flags as they were, stops nothing and reports nothing, and the panel is
\* left ready to poll again from the same cursor.
C16_FailedReadIsEmpty ==
    [][ /\ \A T \in ProbeCursors, unit \in ProbeUnits, seek_back \in SeekBacks :
              read_since(journal, unit, T, FALSE, seek_back) = << >>
        /\ (ticked' /\ ~paused /\ current_context = LogsContextIndex) =>
              \A call_res \in CallResults, list_res \in ListResults :
                 AppTick(call_res, list_res, FALSE) =>
                    /\ io' = <<Call("read_since", "", Cursor)>>
                    /\ UNCHANGED <<logsVars, shellVars, unitsVars>>
                    /\ running' /\ ~paused' /\ current_context' = LogsContextIndex
                    /\ Cursor' = Cursor
      ]_vars

\* a poll has just read from the cursor the panel still has, although the
\* journal holds a readable record newer than it: the read failed
C16_PollFailed ==
    /\ ticked /\ ~paused
    /\ current_context = LogsContextIndex
    /\ Len(io) = 1 /\ io[1].call = "read_since"
    /\ io[1].cursor = Cursor
    /\ Readable(journal, Cursor) # << >>

\* how many iteration calls may answer before one fails; the last value is
\* more than any read of the model makes
IterFaults == 0..(MaxJournal + 1)

\* the places of the calls of fn in a sequence of library calls
CallsOf(tr, fn) == {i \in 1..Len(tr) : tr[i].fn = fn}

\* a read acquires at most one session and releases what it acquired: the
\* first call is the one sd_journal_open; if that fails no other call is
\* made; if it succeeds the last call is the one sd_journal_close
Scoped(tr) ==
    /\ CallsOf(tr, "sd_journal_open") = {1}
    /\ ~tr[1].ok => Len(tr) = 1
    /\ tr[1].ok => CallsOf(tr, "sd_journal_close") = {Len(tr)}

\* C17: each of read_recent, read_since and read_recent_unit_logs opens one
\* session and closes it once, as its last call, on every way out: the end
\* of the records, an iteration error, the cap of records, a record skipped
\* for its missing MESSAGE; a failed open is followed by no call.
C17_SessionsAreScoped ==
    \A unit \in ProbeUnits, open_ok \in BOOLEAN, iter_ok \in IterFaults :
        /\ Scoped(read_recent_calls(journal, unit, RecentLimit, open_ok, iter_ok))
        /\ unit # None =>
              Scoped(read_recent_unit_logs_calls(journal, Unwrap(unit), DetailLogLimit,
                                                 open_ok, iter_ok))
        /\ \A T \in ProbeCursors, seek_back \in SeekBacks :
              Scoped(read_since_calls(journal, unit, T, open_ok, seek_back, iter_ok))

\* a poll has just stopped at the cap of a since-read (the entries held are
\* all newer than its cursor, and the read made no call of sd_journal_next
\* that found the end of the records), on a journal that holds a record
\* without MESSAGE
C17_PollStoppedAtCap ==
    /\ Len(io) = 1 /\ io[1].call = "read_since"
    /\ Len(entries) = SinceCap
    /\ \A i \in 1..Len(entries) : entries[i].timestamp_micros > io[1].cursor
    /\ \E i \in 1..Len(journal) : journal[i].MESSAGE = None
    /\ Cardinality(CallsOf(read_since_calls(journal, filter_unit, io[1].cursor, TRUE,
                                             0, MaxJournal + 1), "sd_journal_next"))
          < Len(journal) + 1

(***************************************************************************)
(* Properties of the unit directory.                                       *)
(***************************************************************************)
\* C18: the selection of the unit directory is an index of the current
\* projection (filtered_units in List mode, tree_items in Tree mode) whenever
\* that is not empty, and 0 when it is empty.
C18_SelectionInProjection ==
    IF TotalItems(view_mode, filtered_units, tree_items) > 0
    THEN selected < TotalItems(view_mode, filtered_units, tree_items)
    ELSE selected = 0

\* the units of a sequence, and how often a unit occurs in it
Occurrences(us, u) == Cardinality({i \in 1..Len(us) : us[i] = u})
SameUnits(us, vs) ==
    /\ Len(us) = Len(vs)
    /\ \A i \in 1..Len(us) : Occurrences(us, us[i]) = Occurrences(vs, us[i])

\* u goes before v under the sort key: by name, or by active state and then
\* by name
GoesBefore(u, v, by) ==
    IF by = "Name" THEN StrCmp(u.name, v.name) <= 0
    ELSE \/ StrCmp(u.active_state, v.active_state) < 0
         \/ /\ StrCmp(u.active_state, v.active_state) = 0
            /\ StrCmp(u.name, v.name) <= 0
\* a sequence of units is in the order of the sort key and direction
InSortOrder(us, by, ascending) ==
    \A i \in 1..Len(us), k \in 1..Len(us) :
        i < k => IF ascending THEN GoesBefore(us[i], us[k], by)
                 ELSE GoesBefore(us[k], us[i], by)

\* C19 as stated: with an empty query the filtered result is the snapshot
\* itself, the same units in the order the unit manager supplied them.
C19_EmptyQueryKeepsOrder == filter = << >> => filtered_units = units

\* C19, amended: with an empty query the filtered result holds exactly the
\* units of the snapshot, in the order of the sort key (name, or active state
\* then name) and direction in force.
C19_EmptyQueryKeepsAllSorted ==
    filter = << >> =>
        /\ SameUnits(filtered_units, units)
        /\ InSortOrder(filtered_units, sort_by, sort_ascending)

\* an empty query over a snapshot the unit manager supplied out of name order,
\* shown by state, descending
C19_SnapshotResorted ==
    /\ filter = << >>
    /\ Len(units) >= 3
    /\ filtered_units # units
    /\ sort_by = "State" /\ ~sort_ascending

\* needle[i..] can be laid on hay[from..] in order: some increasing places
\* of hay hold the characters of needle
RECURSIVE Embeds(_, _, _, _)
Embeds(needle, hay, i, from) ==
    \/ i > Len(needle)
    \/ \E p \in from..Len(hay) :
          hay[p] = needle[i] /\ Embeds(needle, hay, i + 1, p + 1)
IsSubsequence(needle, hay) == Embeds(needle, hay, 1, 1)

\* the query as it is matched, and whether a unit matches it
Query == ToLowercase(Trim(filter))
Matches(u) ==
    \/ IsSubsequence(Query, ToLowercase(u.name))
    \/ IsSubsequence(Query, ToLowercase(u.description))

\* C20: with a non-empty query the filtered result holds a unit of the
\* snapshot exactly if the trimmed, lower-cased query is a subsequence of its
\* lower-cased name or description, and holds nothing else.
C20_ResultIsTheMatches ==
    filter # << >> =>
        /\ \A i \in 1..Len(units) :
              Occurrences(filtered_units, units[i]) =
                  (IF Matches(units[i]) THEN Occurrences(units, units[i]) ELSE 0)
        /\ \A i \in 1..Len(filtered_units) : Occurrences(units, filtered_units[i]) > 0

\* a query that drops a unit and keeps one that holds it as a subsequence
\* only, in no field as a substring
C20_KeptBySubsequence ==
    /\ filter # << >>
    /\ Query # << >>
    /\ Len(filtered_units) < Len(units)
    /\ \E i \in 1..Len(filtered_units) :
          /\ FindStr(ToLowercase(filtered_units[i].name), Query) = None
          /\ FindStr(ToLowercase(filtered_units[i].description), Query) = None

\* a unit holds the query as a contiguous substring of its name or of its
\* description; a unit matches the query as a subsequence only
BySubstring(u) ==
    \/ IsSome(FindStr(ToLowercase(u.name), Query))
    \/ IsSome(FindStr(ToLowercase(u.description), Query))
SubsequenceOnly(u) == Matches(u) /\ ~BySubstring(u)

\* C21: in the ranked result of a non-empty query no unit that matches the
\* query as a subsequence only stands before a unit that holds the query as
\* a contiguous substring.
C21_SubstringRanksFirst ==
    filter # << >> =>
        \A i \in 1..Len(filtered_units), k \in 1..Len(filtered_units) :
            i < k => ~(SubsequenceOnly(filtered_units[i]) /\ BySubstring(filtered_units[k]))

\* the score the query gives a unit of the filtered result
ScoreOf(u) == Unwrap(BestScore(u, Query))

\* C22: the ranked result of a non-empty query is in ascending order of
\* score whatever the direction; units of equal score are in the order of
\* the sort key, ascending or reversed as the direction says.
C22_ScoreAscendingBothDirections ==
    filter # << >> =>
        \A i \in 1..Len(filtered_units), k \in 1..Len(filtered_units) :
            i < k =>
                \/ ScoreOf(filtered_units[i]) < ScoreOf(filtered_units[k])
                \/ /\ ScoreOf(filtered_units[i]) = ScoreOf(filtered_units[k])
                   /\ IF sort_ascending
                      THEN GoesBefore(filtered_units[i], filtered_units[k], sort_by)
                      ELSE GoesBefore(filtered_units[k], filtered_units[i], sort_by)

\* haystacks the scoring is probed with, besides the names and descriptions
\* of the snapshot: every string of at most ProbeLen of two characters
ProbeLen == 3
ProbeChars == {"s", "k"}
ProbeHaystacks == UNION {[1..n -> ProbeChars] : n \in 0..ProbeLen}

\* the place (from 1) the leftmost greedy match gives needle[i] in hay: the
\* first place after that of needle[i-1] that holds the character, and
\* Len(hay) + 1 when there is none
RECURSIVE GreedyPlace(_, _, _)
GreedyPlace(hay, needle, i) ==
    LET prev == IF i = 1 THEN 0 ELSE GreedyPlace(hay, needle, i - 1)
        places == {p \in (prev + 1)..Len(hay) : hay[p] = needle[i]}
    IN  IF places = {} THEN Len(hay) + 1 ELSE Least(places)

\* where needle occurs in hay as a contiguous substring (indices from 0)
Occurs(hay, needle) ==
    {i \in 0..(Len(hay) - Len(needle)) :
        \A k \in 1..Len(needle) : hay[i + k] = needle[k]}

\* the score as specified.  The gaps skipped before the matched characters
\* add up to the place of the last one less the length of the needle.
SpecifiedScore(hay, needle) ==
    IF Occurs(hay, needle) # {} THEN Some(Least(Occurs(hay, needle)))
    ELSE IF GreedyPlace(hay, needle, Len(needle)) > Len(hay) THEN None
    ELSE Some((GreedyPlace(hay, needle, 1) - 1)
              + 2 * (GreedyPlace(hay, needle, Len(needle)) - Len(needle))
              + 100)

\* the score of a unit as specified: the lower of its name score and its
\* description score plus 200
SpecifiedUnitScore(u, needle) ==
    LET by_name == SpecifiedScore(ToLowercase(u.name), needle)
        by_desc == SpecifiedScore(ToLowercase(u.description), needle)
    IN  CASE by_name = None /\ by_desc = None -> None
          [] by_name = None -> Some(by_desc[1] + 200)
          [] by_desc = None -> by_name
          [] OTHER -> Some(IF by_name[1] <= by_desc[1] + 200
                           THEN by_name[1] ELSE by_desc[1] + 200)

\* C23: for the query in force, fuzzy_match_score gives every probed
\* haystack and every name and description of the snapshot the specified
\* score (index of the first occurrence of a substring; first matched index
\* + 2 x gaps + 100 for the greedy subsequence match; none without a match),
\* and every unit gets the lower of its name score and its description score
\* plus 200.
C23_ScoreAsSpecified ==
    /\ \A hay \in ProbeHaystacks :
          fuzzy_match_score(hay, Query) = SpecifiedScore(hay, Query)
    /\ \A i \in 1..Len(units) :
          /\ fuzzy_match_score(ToLowercase(units[i].name), Query)
                = SpecifiedScore(ToLowercase(units[i].name), Query)
          /\ fuzzy_match_score(ToLowercase(units[i].description), Query)
                = SpecifiedScore(ToLowercase(units[i].description), Query)
          /\ BestScore(units[i], Query) = SpecifiedUnitScore(units[i], Query)

\* a two-character query that one unit holds as a subsequence of its name
\* only (ssh.socket: 0 + 2 x 6 + 100), another as a substring of its
\* description only (cron.service: 2 + 200), and a probed haystack as a
\* subsequence that starts at index 1 and skips two characters
C23_ScoredByGapAndPenalty ==
    /\ Len(Query) = 2
    /\ \E i \in 1..Len(filtered_units) : ScoreOf(filtered_units[i]) = 112
    /\ \E i \in 1..Len(filtered_units) : ScoreOf(filtered_units[i]) = 202
    /\ fuzzy_match_score(<<"e", "s", "e", "k">>, Query) = Some(105)

(***************************************************************************)
(* Properties of the group tree.                                           *)
(***************************************************************************)
\* the rows of the tree that are group headers
GroupRows == {p \in 1..Len(tree_items) : tree_items[p].kind = "Group"}
\* the places of the filtered list whose unit is of group g
PlacesOf(g) == {i \in 1..Len(filtered_units) : GroupKey(filtered_units[i].name) = g}
\* the k-th least element of a set of integers
RECURSIVE Nth(_, _)
Nth(S, k) == IF k = 1 THEN Least(S) ELSE Nth(S \ {Least(S)}, k - 1)
\* the counts of the group headers of a tree, added up
RECURSIVE SumCounts(_)
SumCounts(tree) ==
    IF tree = << >> THEN 0
    ELSE (IF Head(tree).kind = "Group" THEN Head(tree).count ELSE 0)
         + SumCounts(Tail(tree))
\* the rows a group header at row p is followed by
ShownUnder(p) ==
    IF tree_items[p].name \in collapsed_groups THEN 0
    ELSE Cardinality(PlacesOf(tree_items[p].name))

\* C24: the tree has one header per group key of the filtered list, the
\* headers in ascending order of name; a header carries the number of its
\* group's units and of its active ones; it is followed at once by its
\* units, in the order of the filtered list, exactly if the group is not
\* collapsed; the counts add up to the length of the filtered list.
C24_TreeIsGroupedList ==
    /\ {tree_items[p].name : p \in GroupRows}
          = {GroupKey(filtered_units[i].name) : i \in 1..Len(filtered_units)}
    /\ \A p \in GroupRows, q \in GroupRows :
          p < q => StrCmp(tree_items[p].name, tree_items[q].name) < 0
    /\ tree_items # << >> => 1 \in GroupRows
    /\ \A p \in GroupRows :
          /\ tree_items[p].count = Cardinality(PlacesOf(tree_items[p].name))
          /\ tree_items[p].active =
                Cardinality({i \in PlacesOf(tree_items[p].name) :
                                filtered_units[i].active_state = Active})
          /\ p + ShownUnder(p) <= Len(tree_items)
          /\ \A k \in 1..ShownUnder(p) :
                /\ tree_items[p + k].kind = "Unit"
                /\ tree_items[p + k].unit
                      = Some(filtered_units[Nth(PlacesOf(tree_items[p].name), k)])
          /\ p + ShownUnder(p) < Len(tree_items) => (p + ShownUnder(p) + 1) \in GroupRows
    /\ SumCounts(tree_items) = Len(filtered_units)

\* a tree rebuilt for a query, with a collapsed group that has units and an
\* open group not all of whose units are active
C24_MixedTreeRebuilt ==
    /\ filter # << >>
    /\ \E p \in GroupRows :
          tree_items[p].name \in collapsed_groups /\ tree_items[p].count > 0
    /\ \E p \in GroupRows :
          /\ tree_items[p].name \notin collapsed_groups
          /\ tree_items[p].count > 1
          /\ tree_items[p].active < tree_items[p].count

\* the selection of the directory is on a group header of the tree and a
\* key goes to the list
OnGroupRow ==
    /\ ReachesUnits("Enter")
    /\ detail_unit = None
    /\ ~show_filter
    /\ view_mode = "Tree"
    /\ selected + 1 \in GroupRows
\* the group the selection is on
SelectedGroup == tree_items[selected + 1].name

\* C25: Enter on a group header of the tree flips the collapsed status of
\* that group and leaves the collapsed status of every other group as it
\* was.
C25_ToggleFlipsOneGroup ==
    [][ (~ticked' /\ OnGroupRow /\ HandleKey("Enter", TRUE)) =>
            /\ (SelectedGroup \in collapsed_groups') # (SelectedGroup \in collapsed_groups)
            /\ \A g \in (collapsed_groups \cup collapsed_groups') \ {SelectedGroup} :
                  (g \in collapsed_groups') = (g \in collapsed_groups)
      ]_vars

\* a key goes to the list of the directory
OnList(key) == ReachesUnits(key) /\ detail_unit = None /\ ~show_filter
\* the steps of the user's collapse and expand operations
TogglesGroup == OnGroupRow /\ HandleKey("Enter", TRUE)
ExpandsAll == OnList("e") /\ HandleKey("e", TRUE)
CollapsesAll == OnList("c") /\ HandleKey("c", TRUE)

\* C26: no step after the first build puts into collapsed_groups a group
\* the user did not collapse.  A toggle leaves at most the set with the one
\* group flipped, expand-all leaves nothing, collapse-all at most the groups
\* of the tree, and every other step (filter edits, sort changes, refresh,
\* view-mode toggle) adds nothing to the set.
C26_NeverReseeded ==
    [][ /\ (~ticked' /\ TogglesGroup) =>
              collapsed_groups' \subseteq
                  (IF SelectedGroup \in collapsed_groups
                   THEN collapsed_groups \ {SelectedGroup}
                   ELSE collapsed_groups \cup {SelectedGroup})
        /\ (~ticked' /\ ExpandsAll) => collapsed_groups' \subseteq {}
        /\ (~ticked' /\ CollapsesAll) =>
              collapsed_groups' \subseteq {tree_items[p].name : p \in GroupRows}
        /\ (ticked' \/ ~(TogglesGroup \/ ExpandsAll \/ CollapsesAll)) =>
              collapsed_groups' \subseteq collapsed_groups
      ]_vars

\* C27: after expand-all no group is collapsed and every unit of the
\* filtered list is a row of the tree.
C27_ExpandAllShowsEveryUnit ==
    [][ (~ticked' /\ ExpandsAll) =>
            /\ collapsed_groups' = {}
            /\ \A i \in 1..Len(filtered_units') :
                  \E p \in 1..Len(tree_items') :
                      /\ tree_items'[p].kind = "Unit"
                      /\ tree_items'[p].unit = Some(filtered_units'[i])
      ]_vars

\* C28: after collapse-all the collapse set is the set of the group keys of
\* the filtered list and the tree holds group headers only, one per group.
C28_CollapseAllLeavesHeaders ==
    [][ (~ticked' /\ CollapsesAll) =>
            /\ collapsed_groups'
                  = {GroupKey(filtered_units'[i].name) : i \in 1..Len(filtered_units')}
            /\ \A p \in 1..Len(tree_items') : tree_items'[p].kind = "Group"
            /\ {tree_items'[p].name : p \in 1..Len(tree_items')} = collapsed_groups'
            /\ Len(tree_items') = Cardinality(collapsed_groups')
      ]_vars

\* collapse-all has acted on a tree with an open service group: the headers
\* of two groups are all that is left, service among the collapsed, and the
\* selection is where it was, on the row after the last header
C28_CollapsedUnderSelection ==
    /\ view_mode = "Tree"
    /\ Len(tree_items) = 2
    /\ \A p \in 1..Len(tree_items) : tree_items[p].kind = "Group"
    /\ Service \in collapsed_groups
    /\ selected = Len(tree_items)

\* the group keys of a list of units
KeysOf(us) == {GroupKey(us[i].name) : i \in 1..Len(us)}
\* the units a tree shows
UnitsShown(tree) == {tree[p].unit[1] : p \in {q \in 1..Len(tree) : tree[q].kind = "Unit"}}
\* a tree and a collapse set as the first build leaves them for a list of
\* units: every group but "service" collapsed, the units of the service
\* group shown and no others
FirstBuilt(us, tree, collapsed) ==
    /\ collapsed = KeysOf(us) \ {Service}
    /\ UnitsShown(tree) = {us[i] : i \in {j \in 1..Len(us) : GroupKey(us[j].name) = Service}}
    /\ Len(tree) = Cardinality(KeysOf(us)) + Cardinality(UnitsShown(tree))

ProbeLists == {filtered_units} \cup {Members(units, g) : g \in KeysOf(units)}
ProbeCollapsed == {{}, KeysOf(units)}

\* C30: a rebuild that follows a rebuild of the same list changes nothing.
\* For every probed list and collapse set the second rebuild gives the tree
\* and the collapse set the first one gave; and in every state, each reached
\* through a rebuild, one more rebuild would leave tree_items and
\* collapsed_groups as they are.
C30_RebuildIsIdempotent ==
    /\ \A fu \in ProbeLists, c \in ProbeCollapsed :
          /\ TreeItems(fu, CollapsedAfterRebuild(fu, c)) = TreeItems(fu, c)
          /\ CollapsedAfterRebuild(fu, CollapsedAfterRebuild(fu, c))
                = CollapsedAfterRebuild(fu, c)
    /\ TreeItems(filtered_units, collapsed_groups) = tree_items
    /\ CollapsedAfterRebuild(filtered_units, collapsed_groups) = collapsed_groups

\* a tree rebuilt for a query after the user collapsed the service group
\* and opened the socket group
C30_RebuiltAfterToggles ==
    /\ filter # << >>
    /\ collapsed_groups = {Service}
    /\ Cardinality(GroupRows) = 2
    /\ Len(tree_items) = 3

\* the places of the '.' characters of a name
Dots(name) == {i \in 1..Len(name) : name[i] = "."}
\* the group name of the units whose name has no '.'
Unknown == <<"u", "n", "k", "n", "o", "w", "n">>
\* the group a unit name belongs to: what follows its last '.', and
\* "unknown" when it has no '.'
SuffixGroup(name) ==
    IF Dots(name) = {} THEN Unknown
    ELSE SubSeq(name, Greatest(Dots(name)) + 1, Len(name))

\* C31: every unit of the filtered list is counted under the group header
\* named by what follows the last '.' of its name, and under the header
\* "unknown" when its name has no '.'.
C31_GroupIsSuffixOrUnknown ==
    \A i \in 1..Len(filtered_units) :
        \E p \in GroupRows : tree_items[p].name = SuffixGroup(filtered_units[i].name)

(***************************************************************************)
(* Properties of the selection and of the detail view.                     *)
(***************************************************************************)
\* the selection is on a unit of the projection
OnUnitRow ==
    IF view_mode = "List" THEN selected < Len(filtered_units)
    ELSE selected < Len(tree_items) /\ tree_items[selected + 1].kind = "Unit"
\* the unit of the selected row
RowUnit ==
    IF view_mode = "List" THEN filtered_units[selected + 1]
    ELSE tree_items[selected + 1].unit[1]

\* C32: there is a current unit only while the selection is on a unit of
\* the projection (none on a group header, none out of range); Enter on a
\* group header opens no detail view; and the detail view changes its unit
\* only by opening, from closed, on the unit of the selected row.
C32_OnlyUnitRowsOpen ==
    /\ [](~OnUnitRow => selected_unit = None)
    /\ [][ /\ (detail_unit' # detail_unit /\ detail_unit' # None) =>
                 /\ detail_unit = None
                 /\ OnUnitRow
                 /\ detail_unit' = Some(RowUnit)
           /\ (~ticked' /\ OnGroupRow
                 /\ \E open_ok \in BOOLEAN : HandleKey("Enter", open_ok)) =>
                 detail_unit' = None
         ]_vars

\* the detail view just opened on the unit of the selected row, below a
\* group header
C32_OpenedOnUnitRow ==
    /\ detail_unit # None
    /\ OnUnitRow /\ selected > 0
    /\ detail_unit = Some(RowUnit)
    /\ io # << >> /\ io[1].call = "read_recent_unit_logs"

\* the steps that rebuild the projection under the selection: the switch
\* between list and tree, Enter on the edited filter, a tick that runs the
\* pending action and gets a snapshot from the unit manager
TogglesView == OnList("t") /\ HandleKey("t", TRUE)
AppliesFilter ==
    /\ ReachesUnits("Enter") /\ detail_unit = None /\ show_filter
    /\ HandleKey("Enter", TRUE)
RefreshRebuilds ==
    /\ ticked'
    /\ current_context = UnitsContextIndex
    /\ IsSome(pending_action) /\ IsSome(detail_unit)
    /\ error' = None
\* the rows of the new tree that are units
UnitRowsAfter == {p \in 1..Len(tree_items') : tree_items'[p].kind = "Unit"}
\* the length of the new projection
TotalAfter == IF view_mode' = "List" THEN Len(filtered_units') ELSE Len(tree_items')

\* C33 as stated: the switch of view mode, the application of the filter
\* and a refresh that leaves the selection out of range all put selected
\* and scroll_offset at 0.
C33_RebuildsResetToZero ==
    [][ /\ (~ticked' /\ TogglesView) => (selected' = 0 /\ scroll_offset' = 0)
        /\ (~ticked' /\ AppliesFilter) => (selected' = 0 /\ scroll_offset' = 0)
        /\ (RefreshRebuilds /\ selected >= TotalAfter) =>
              (selected' = 0 /\ scroll_offset' = 0)
      ]_vars

\* C33, amended: the switch of view mode puts selected and scroll_offset at
\* 0; the application of the filter puts scroll_offset at 0 and selected on
\* the first unit row of the tree (row 0 in List mode or when the tree shows
\* no unit); a refresh that leaves the selection out of range puts selected
\* on the last row of the new projection (0 when it is empty) and leaves
\* scroll_offset as it was.
C33_RebuildsPlaceSelection ==
    [][ /\ (~ticked' /\ TogglesView) => (selected' = 0 /\ scroll_offset' = 0)
        /\ (~ticked' /\ AppliesFilter) =>
              /\ scroll_offset' = 0
              /\ selected' = IF view_mode = "List" \/ UnitRowsAfter = {} THEN 0
                             ELSE Least(UnitRowsAfter) - 1
        /\ (RefreshRebuilds /\ selected >= TotalAfter) =>
              /\ selected' = IF TotalAfter = 0 THEN 0 ELSE TotalAfter - 1
              /\ scroll_offset' = scroll_offset
      ]_vars

\* a filter applied in Tree mode: the selection is on the first unit row,
\* below the header of its group
C33_FilterAppliedOnFirstLeaf ==
    /\ ~show_filter /\ filter # << >> /\ detail_unit = None /\ ~ticked
    /\ view_mode = "Tree"
    /\ selected >= 1
    /\ OnUnitRow
    /\ \A p \in 1..selected : tree_items[p].kind = "Group"

\* a tick that runs refresh: it finds a pending action and an open unit
\* in the current units context
RefreshRuns ==
    /\ ticked'
    /\ current_context = UnitsContextIndex
    /\ IsSome(pending_action) /\ IsSome(detail_unit)

\* C34: a refresh whose list_units fails sets the error string "Failed to
\* list units: <error>", ends with loading false and leaves the units, the
\* filtered list, the tree, the collapse set and the selection as they were;
\* a refresh whose list_units succeeds ends with no error; no step other
\* than a refresh changes the error.
C34_GatherFailureIsLocal ==
    [][ /\ RefreshRuns =>
              \A call_res \in CallResults, list_res \in ListResults :
                  AppTick(call_res, list_res, TRUE) =>
                      /\ loading' = FALSE
                      /\ list_res.ok => error' = None
                      /\ ~list_res.ok =>
                            /\ error' = Some("Failed to list units: " \o list_res.err)
                            /\ UNCHANGED <<units, filtered_units, tree_items,
                                           collapsed_groups, selected>>
        /\ ~RefreshRuns => error' = error
      ]_vars

\* a refresh has failed over a directory that held units: the error is
\* shown and the units are still there
C34_RefreshFailedOverUnits ==
    /\ ticked
    /\ error = Some("Failed to list units: Connection refused")
    /\ units # << >> /\ tree_items # << >>
    /\ io # << >> /\ \E i \in 1..Len(io) : io[i].call = "list_units"

\* ------------------------------------------------------------------------
\* Properties of the confirmed action between the key and the tick
\* ------------------------------------------------------------------------

\* the pending action is the one last affirmed, on the unit of the open view
PendingIsAffirmed ==
    IsSome(pending_action) =>
        /\ IsSome(detail_unit)
        /\ affirmed = Some([action |-> Unwrap(pending_action),
                            unit   |-> StrOf(Unwrap(detail_unit).name)])

\* C35: while an action is pending the detail view is open on the unit the
\* affirmative key was pressed on and the pending action is the one of that
\* prompt; the detail view cannot change its unit without the pending
\* action being cleared; and a lifecycle call is made only by a tick, once,
\* with the operation of the pending action on the name of the open unit.
C35_CallTargetsConfirmedUnit ==
    /\ []PendingIsAffirmed
    /\ [][ /\ (detail_unit' # detail_unit) => pending_action' = None
           /\ \A i \in LifecycleCallsIn(io') :
                 /\ ticked'
                 /\ IsSome(pending_action) /\ IsSome(detail_unit)
                 /\ io'[i].call = OperationOf[Unwrap(pending_action)]
                 /\ io'[i].arg = StrOf(Unwrap(detail_unit).name)
                 /\ detail_unit' = detail_unit
                 /\ pending_action' = None
                 /\ Cardinality(LifecycleCallsIn(io')) = 1
         ]_vars

\* a tick has just disabled the unit the detail view is still open on
C35_DisableIssuedOnOpenUnit ==
    /\ ticked /\ IsSome(detail_unit) /\ IsSome(affirmed)
    /\ Unwrap(affirmed) = [action |-> "Disable",
                           unit   |-> StrOf(Unwrap(detail_unit).name)]
    /\ \E i \in LifecycleCallsIn(io) :
          /\ io[i].call = OperationOf["Disable"]
          /\ io[i].arg = StrOf(Unwrap(detail_unit).name)

\* C36: once an action is pending, no key that leaves the detail view open
\* replaces it with another action or drops it, and the tick of the units
\* context that finds it pending issues its call.
C36_PendingNeverReplaced ==
    [][ /\ (~ticked' /\ IsSome(pending_action) /\ IsSome(detail_unit')) =>
              pending_action' = pending_action
        /\ (ticked' /\ current_context = UnitsContextIndex
              /\ IsSome(pending_action) /\ IsSome(detail_unit)) =>
              \E i \in LifecycleCallsIn(io') :
                  io'[i].call = OperationOf[Unwrap(pending_action)]
      ]_vars

\* ------------------------------------------------------------------------
\* Properties of the log panel's selection and of successive polls
\* ------------------------------------------------------------------------

\* C37: in the log panel, follow mode with a non-empty buffer has the
\* selection on the newest record.
C37_FollowIsOnNewest ==
    (follow_mode /\ entries # << >>) => logs_selected = Len(entries) - 1

\* the journal's records are stamped in strictly increasing order
StrictlyIncreasing(j) ==
    \A i \in 1..(Len(j) - 1) : j[i].realtime < j[i + 1].realtime

\* every entry the journal can deliver, oldest first
AllEntries(j) ==
    [i \in 1..Len(Readable(j, 0)) |-> Unwrap(read_current_entry(Readable(j, 0)[i]))]

\* s is a run of consecutive elements of t
IsSlice(s, t) ==
    \E a \in 0..Len(t) :
        /\ a + Len(s) <= Len(t)
        /\ s = SubSeq(t, a + 1, a + Len(s))

\* the entries the journal can deliver that are newer than the newest held
Backlog(es, j) ==
    Cardinality({i \in 1..Len(AllEntries(j)) :
                    AllEntries(j)[i].timestamp_micros > LastSeen(es)})

\* C38: over a journal stamped in strictly increasing order the buffer is
\* always a run of consecutive deliverable records of the journal, in the
\* journal's order (no record twice, none left out between two held), and a
\* poll takes the oldest SinceCap records of the backlog, all of it if it is
\* shorter, or nothing when the journal cannot be opened.
C38_PollsDeliverOnceInOrder ==
    /\ [](StrictlyIncreasing(journal) => IsSlice(entries, AllEntries(journal)))
    /\ [][ (/\ ticked'
            /\ current_context = LogsContextIndex
            /\ ~paused
            /\ StrictlyIncreasing(journal)) =>
               \/ entries' = entries
               \/ /\ Backlog(entries', journal) =
                        Backlog(entries, journal) - Min(SinceCap, Backlog(entries, journal))
                  /\ entries' = KeepLast(entries \o
                        SubSeq(AllEntries(journal),
                               Len(AllEntries(journal)) - Backlog(entries, journal) + 1,
                               Len(AllEntries(journal)) - Backlog(entries', journal)),
                        max_entries)
         ]_vars

\* a poll has delivered the rest of a backlog longer than the cap of one
\* poll: the journal holds more deliverable records than SinceCap, all
\* stamped after 0, and the buffer ends with the newest of them, read by a
\* poll whose cursor was the record before it
C38_BacklogDrained ==
    /\ ticked /\ current_context = LogsContextIndex
    /\ StrictlyIncreasing(journal)
    /\ Len(AllEntries(journal)) > SinceCap
    /\ Len(io) = 1 /\ io[1].call = "read_since"
    /\ io[1].cursor = AllEntries(journal)[Len(AllEntries(journal)) - 1].timestamp_micros
    /\ entries # << >>
    /\ entries[Len(entries)] = AllEntries(journal)[Len(AllEntries(journal))]

\* C39: the selection of the log panel is an index of the buffer, and 0
\* while the buffer is empty.
C39_SelectionIsValid ==
    IF entries = << >> THEN logs_selected = 0
    ELSE logs_selected \in 0..(Len(entries) - 1)

\* a poll into a full buffer has evicted the oldest entry while the
\* selection, not following, was on it
C39_EvictedUnderSelection ==
    /\ ticked /\ current_context = LogsContextIndex
    /\ ~follow_mode /\ logs_selected = 0
    /\ Len(entries) = max_entries
    /\ Len(io) = 1 /\ io[1].call = "read_since" /\ io[1].cursor > 0
    /\ entries[1].timestamp_micros <= io[1].cursor
    /\ entries[Len(entries)].timestamp_micros > io[1].cursor

\* ------------------------------------------------------------------------
\* Properties of the scroll position of the detail log panel
\* ------------------------------------------------------------------------

\* the heights the log area of the detail view may have
VisibleHeights == 1..DetailLogLimit

\* the view is at the bottom, as open_detail, 'G' and a reload in follow
\* mode leave it
AtBottom == detail_log_scroll = ScrollToBottom

\* C40: with the detail view at the bottom and more log lines than rows, up
\* moves the position the log is drawn at up by one line and page-up by a
\* page, not above line 0.
C40_ScrollIsRelativeToDisplay ==
    [][ \A visible \in VisibleHeights :
           (/\ ~ticked'
            /\ AtBottom
            /\ Len(detail_logs) > visible) =>
               /\ (ReachesDetail("k") /\ HandleKey("k", TRUE)) =>
                     DisplayedScroll(detail_log_scroll', detail_logs', visible) =
                        DisplayedScroll(detail_log_scroll, detail_logs, visible) - 1
               /\ (ReachesDetail("b") /\ HandleKey("b", TRUE)) =>
                     DisplayedScroll(detail_log_scroll', detail_logs', visible) =
                        SatSub(DisplayedScroll(detail_log_scroll, detail_logs, visible),
                               PageSize)
      ]_vars

=============================================================================
